---- MODULE Spec2Model ----
(***************************************************************************)
(* Cesium3DTileStyle (Scene/Cesium3DTileStyle.js): the style facade of the *)
(* 3D Tiles styling engine.  One style object is modelled: its private     *)
(* fields, the construction-time load, the property getters and setters    *)
(* and the three memoized shader-function accessors.                       *)
(***************************************************************************)
EXTENDS Integers, Sequences, FiniteSets, TLC

VARIABLES
    that,          \* the style object: its private fields, named as in the source
    readyPromise,  \* settlement of this._readyPromise
    request,       \* the loadJson request: "none", "pending", "resolved", "rejected"
    styleJson,     \* current content of the object given to the constructor (or of the loaded JSON)
    callerMutated, \* the caller has mutated the object it gave to the constructor
    loaded,        \* the document setup was given, as it was then (undefined if none)
    lastOp,        \* the last operation invoked on the style, with its outcome
    calls,         \* per cached property: getShaderFunction invocations since its last assignment
    nsets,         \* number of setter calls made by the application so far
    highlightRange, \* the TimelineHighlightRange object: its fields, named as in the source
    listeners,      \* per change event: the listeners registered on it
    created,        \* number of listeners registered so far
    topDiv,         \* the children of renderState.topDiv, the first child first
    rangeOp         \* the last operation on the highlight range, with its result

styleVars == <<that, readyPromise, request, styleJson, callerMutated, loaded, lastOp, calls, nsets>>
rangeVars == <<highlightRange, listeners, created, topDiv, rangeOp>>
vars == <<styleVars, rangeVars>>

(***************************************************************************)
(* Bounds of the model.                                                    *)
(***************************************************************************)
MaxSets == 1
\* The compilations counted per accessor; the count stays at this number
\* once it is reached.
MaxCalls == 2

(***************************************************************************)
(* JavaScript values.  Every value is a record tagged with its type.       *)
(***************************************************************************)
Undefined == [type |-> "undefined"]
Null == [type |-> "null"]
Bool(b) == [type |-> "boolean", bool |-> b]
Num(n) == [type |-> "number", num |-> n]
Str(s) == [type |-> "string", str |-> s]
\* A plain object; members is a function from the own keys to their values.
Object(m) == [type |-> "object", members |-> m]
EMPTY_OBJECT == Object([k \in {} |-> Undefined])
\* An object given to a property setter: id is its identity, conditions its
\* conditions member, getShaderFunction tells whether it has that method.
StyleObject(id, conditions, hasGetShaderFunction) ==
    [type |-> "object", id |-> id, conditions |-> conditions,
     getShaderFunction |-> hasGetShaderFunction]
Error(name) == [type |-> "error", name |-> name]
NotLoadedError == Error("DeveloperError")

\* defined(value): neither undefined nor null.
defined(value) == value.type \notin {"undefined", "null"}

\* defaultValue(a, b)
defaultValue(a, b) == IF a.type \in {"undefined", "null"} THEN b ELSE a

\* typeof value
typeof(value) ==
    CASE value.type = "undefined" -> "undefined"
      [] value.type = "boolean" -> "boolean"
      [] value.type = "number" -> "number"
      [] value.type = "string" -> "string"
      [] OTHER -> "object"

\* String(value) of a boolean or a number.
String(value) ==
    CASE value.type = "boolean" -> (IF value.bool THEN "true" ELSE "false")
      [] value.type = "number" -> ToString(value.num)

\* object.key of a plain object: undefined when the key is absent.
Member(object, key) ==
    IF object.type = "object" /\ key \in DOMAIN object.members
    THEN object.members[key]
    ELSE Undefined

(***************************************************************************)
(* The collaborators of the style: Expression, ConditionsExpression, the   *)
(* custom style objects and clone.                                         *)
(***************************************************************************)
\* Expression sources used by the model.
SrcHeight == "${Height} > 0"
SrcRegExp == "regExp('^Chest').test(${County})"
SrcColor == "color('red', 0.5)"
SrcDefine == "${h} * 2"
SrcMalformed == "${Height} >"

\* Sources the expression parser rejects.
MalformedSources == {SrcMalformed}
\* Sources with no shader equivalent.
NotCompilableSources == {SrcRegExp}
\* Sources whose shader code is translucency-relevant.
TranslucentSources == {SrcColor}

\* new Expression(expression, defines): the expression object, or the
\* parser's error.
Expression(expression, defines) ==
    IF expression \in MalformedSources
    THEN [threw |-> TRUE, ret |-> Error("SyntaxError")]
    ELSE [threw |-> FALSE,
          ret |-> [type |-> "Expression", expression |-> expression, defines |-> defines]]

\* new ConditionsExpression(conditionsExpression, defines): every condition
\* and result is parsed at construction.
ConditionsExpression(conditionsExpression, defines) ==
    IF \E i \in DOMAIN conditionsExpression.conditions.items :
           \E j \in 1..2 : conditionsExpression.conditions.items[i][j] \in MalformedSources
    THEN [threw |-> TRUE, ret |-> Error("SyntaxError")]
    ELSE [threw |-> FALSE,
          ret |-> [type |-> "ConditionsExpression",
                   conditionsExpression |-> conditionsExpression, defines |-> defines]]

\* The sources an expression object was built from.
SourcesOf(expression) ==
    CASE expression.type = "Expression" -> {expression.expression}
      [] expression.type = "ConditionsExpression" ->
            {expression.conditionsExpression.conditions.items[i][j] :
                 i \in DOMAIN expression.conditionsExpression.conditions.items, j \in 1..2}
      [] OTHER -> {}

\* Whether expression.getShaderFunction is a function.
HasGetShaderFunction(expression) ==
    CASE expression.type \in {"Expression", "ConditionsExpression"} -> TRUE
      [] expression.type = "object" /\ "getShaderFunction" \in DOMAIN expression ->
            expression.getShaderFunction
      [] OTHER -> FALSE

\* expression.getShaderFunction(functionName, attributePrefix, shaderState,
\* returnType): the generated source, a term naming what it was generated
\* from, or undefined when the expression is not compilable.
getShaderFunction(expression, functionName, attributePrefix, returnType) ==
    IF SourcesOf(expression) \cap NotCompilableSources # {}
    THEN Undefined
    ELSE [type |-> "shader", of |-> expression, functionName |-> functionName,
          attributePrefix |-> attributePrefix, returnType |-> returnType]

\* The shaderState argument after that call.
ShaderStateAfter(expression, shaderState) ==
    IF SourcesOf(expression) \cap TranslucentSources # {}
    THEN [shaderState EXCEPT !.translucent = TRUE]
    ELSE shaderState

\* clone(object, deep): the reference held after the copy.  content is the
\* copied content; shared tells what the copy still shares with the original
\* ("none" for a deep copy, "nested" for a shallow one).
clone(object, deep) ==
    IF ~defined(object)
    THEN object
    ELSE [type |-> "reference", content |-> object,
          shared |-> IF deep THEN "none" ELSE "nested"]

\* The object a reference denotes, given the current content of the original.
Deref(reference, original) ==
    CASE reference.type # "reference" -> reference
      [] reference.shared = "none" -> reference.content
      [] reference.shared = "all" -> original
      [] OTHER ->
            Object([k \in DOMAIN reference.content.members |->
                       IF reference.content.members[k].type = "object"
                       THEN Member(original, k)
                       ELSE reference.content.members[k]])

(***************************************************************************)
(* Cesium3DTileStyle.                                                      *)
(***************************************************************************)
\* The stylable properties, in the order setup assigns them.
SetupOrder ==
    <<"show", "color", "pointSize", "pointColor", "pointOutlineColor",
      "pointOutlineWidth", "labelColor", "labelOutlineColor", "labelOutlineWidth",
      "labelStyle", "font", "labelText", "backgroundColor", "backgroundPadding",
      "backgroundEnabled", "scaleByDistance", "translucencyByDistance",
      "distanceDisplayCondition", "heightOffset", "anchorLineEnabled",
      "anchorLineColor", "image", "disableDepthTestDistance", "origin", "labelOrigin">>

StylableProperties == {SetupOrder[i] : i \in DOMAIN SetupOrder}
\* The properties with a memoized shader function.
ShaderProperties == {"show", "color", "pointSize"}
\* The properties that throw when read before the style is ready.
GuardedProperties == StylableProperties \cup {"style", "meta"}

\* The private field behind a property, its memoized shader function and the
\* flag that tells the memoized value is valid (the names are tabulated).
FieldNames == [property \in GuardedProperties |-> "_" \o property]
ShaderFunctionFieldNames == [property \in ShaderProperties |-> "_" \o property \o "ShaderFunction"]
ShaderFunctionReadyFieldNames == [property \in ShaderProperties |-> "_" \o property \o "ShaderFunctionReady"]
Field(property) == FieldNames[property]
ShaderFunctionField(property) == ShaderFunctionFieldNames[property]
ShaderFunctionReadyField(property) == ShaderFunctionReadyFieldNames[property]

\* The fields set by the constructor before the load is started.
NewStyle ==
    [f \in {Field(p) : p \in GuardedProperties}
           \cup {ShaderFunctionField(p) : p \in ShaderProperties} |-> Undefined]
    @@ [_ready |-> FALSE,
        _colorShaderFunctionReady |-> FALSE,
        _showShaderFunctionReady |-> FALSE,
        _pointSizeShaderFunctionReady |-> FALSE]

\* getExpression with value === undefined in place of defined(value).
getExpressionNullPassed(tileStyle, value, original) ==
    LET defines == Member(defaultValue(Deref(tileStyle._style, original), EMPTY_OBJECT), "defines")
    IN  CASE value.type = "undefined" -> [threw |-> FALSE, ret |-> Undefined]
          [] typeof(value) = "boolean" \/ typeof(value) = "number" ->
                Expression(String(value), Undefined)
          [] typeof(value) = "string" -> Expression(value.str, defines)
          [] "conditions" \in DOMAIN value /\ defined(value.conditions) ->
                ConditionsExpression(value, defines)
          [] OTHER -> [threw |-> FALSE, ret |-> value]

\* getExpression(tileStyle, value); original is the current content of the
\* object tileStyle._style was copied from.
getExpression(tileStyle, value, original) ==
    LET defines == Member(defaultValue(Deref(tileStyle._style, original), EMPTY_OBJECT), "defines")
    IN  CASE ~defined(value) -> [threw |-> FALSE, ret |-> Undefined]
          [] typeof(value) = "boolean" \/ typeof(value) = "number" ->
                Expression(String(value), Undefined)
          [] typeof(value) = "string" -> Expression(value.str, defines)
          [] "conditions" \in DOMAIN value /\ defined(value.conditions) ->
                ConditionsExpression(value, defines)
          [] OTHER -> [threw |-> FALSE, ret |-> value]

\* A setter that clears the flags of all three caches.
SetPropertyClearsAllFlags(tileStyle, property, value, original) ==
    LET e == getExpression(tileStyle, value, original)
        assigned == [tileStyle EXCEPT ![Field(property)] = e.ret]
    IN  IF e.threw
        THEN [that |-> tileStyle, threw |-> TRUE, ret |-> e.ret]
        ELSE [that |-> [assigned EXCEPT !._colorShaderFunctionReady = FALSE,
                                        !._showShaderFunctionReady = FALSE,
                                        !._pointSizeShaderFunctionReady = FALSE],
              threw |-> FALSE, ret |-> Undefined]

\* A setter of a cached property that clears _ready where it should clear the
\* flag of the cache.
SetPropertyClearsReady(tileStyle, property, value, original) ==
    LET e == getExpression(tileStyle, value, original)
        assigned == [tileStyle EXCEPT ![Field(property)] = e.ret]
    IN  IF e.threw
        THEN [that |-> tileStyle, threw |-> TRUE, ret |-> e.ret]
        ELSE [that |-> IF property \in ShaderProperties
                       THEN [assigned EXCEPT !._ready = FALSE]
                       ELSE assigned,
              threw |-> FALSE, ret |-> Undefined]

\* A setter that leaves the flag of the cache as it is.
SetPropertyKeepsFlag(tileStyle, property, value, original) ==
    LET e == getExpression(tileStyle, value, original)
    IN  IF e.threw
        THEN [that |-> tileStyle, threw |-> TRUE, ret |-> e.ret]
        ELSE [that |-> [tileStyle EXCEPT ![Field(property)] = e.ret],
              threw |-> FALSE, ret |-> Undefined]

\* A setter of a cached property that clears the flag before it builds the
\* expression.
SetPropertyClearsFlagFirst(tileStyle, property, value, original) ==
    LET e == getExpression(tileStyle, value, original)
        cleared == IF property \in ShaderProperties
                   THEN [tileStyle EXCEPT ![ShaderFunctionReadyField(property)] = FALSE]
                   ELSE tileStyle
    IN  IF e.threw
        THEN [that |-> cleared, threw |-> TRUE, ret |-> e.ret]
        ELSE [that |-> [cleared EXCEPT ![Field(property)] = e.ret],
              threw |-> FALSE, ret |-> Undefined]

\* The setter of a stylable property: the style after the call, and whether
\* the call threw.
SetProperty(tileStyle, property, value, original) ==
    LET e == getExpression(tileStyle, value, original)
        assigned == [tileStyle EXCEPT ![Field(property)] = e.ret]
    IN  IF e.threw
        THEN [that |-> tileStyle, threw |-> TRUE, ret |-> e.ret]
        ELSE [that |-> IF property \in ShaderProperties
                       THEN [assigned EXCEPT ![ShaderFunctionReadyField(property)] = FALSE]
                       ELSE assigned,
              threw |-> FALSE, ret |-> Undefined]

\* A meta setter that converts the value like the other setters.
SetMetaCoerces(tileStyle, value) ==
    LET e == getExpression(tileStyle, value, Undefined)
    IN  IF e.threw
        THEN [that |-> tileStyle, threw |-> TRUE, ret |-> e.ret]
        ELSE [that |-> [tileStyle EXCEPT !._meta = e.ret], threw |-> FALSE, ret |-> Undefined]

\* The setter of meta.
SetMeta(tileStyle, value) ==
    [that |-> [tileStyle EXCEPT !._meta = value], threw |-> FALSE, ret |-> Undefined]

\* A getter that lacks the check of _ready.
GetPropertyUnguarded(tileStyle, property, original) ==
    [threw |-> FALSE,
     ret |-> IF property = "style"
             THEN Deref(tileStyle._style, original)
             ELSE tileStyle[Field(property)]]

\* The getter of style, of a stylable property or of meta.
GetProperty(tileStyle, property, original) ==
    IF ~tileStyle._ready
    THEN [threw |-> TRUE, ret |-> NotLoadedError]
    ELSE [threw |-> FALSE,
          ret |-> IF property = "style"
                  THEN Deref(tileStyle._style, original)
                  ELSE tileStyle[Field(property)]]

\* Assignments of setup that write the private fields themselves and leave
\* the flags of the caches alone.
RECURSIVE SetupAssignDirect(_, _, _)
SetupAssignDirect(tileStyle, json, i) ==
    IF i > Len(SetupOrder)
    THEN [that |-> tileStyle, threw |-> FALSE, ret |-> Undefined, assigned |-> i - 1]
    ELSE LET e == getExpression(tileStyle, Member(json, SetupOrder[i]), json)
         IN  IF e.threw
             THEN [that |-> tileStyle, threw |-> TRUE, ret |-> e.ret, assigned |-> i - 1]
             ELSE SetupAssignDirect([tileStyle EXCEPT ![Field(SetupOrder[i])] = e.ret], json, i + 1)

\* Assignments of setup that pass over the keys the document does not have.
RECURSIVE SetupAssignSkipsAbsent(_, _, _)
SetupAssignSkipsAbsent(tileStyle, json, i) ==
    IF i > Len(SetupOrder)
    THEN [that |-> tileStyle, threw |-> FALSE, ret |-> Undefined, assigned |-> i - 1]
    ELSE IF ~defined(Member(json, SetupOrder[i]))
    THEN SetupAssignSkipsAbsent(tileStyle, json, i + 1)
    ELSE LET r == SetProperty(tileStyle, SetupOrder[i], Member(json, SetupOrder[i]), json)
         IN  IF r.threw
             THEN [that |-> r.that, threw |-> TRUE, ret |-> r.ret, assigned |-> i - 1]
             ELSE SetupAssignSkipsAbsent(r.that, json, i + 1)

\* The assignments of setup, from the i-th on: the style after them, whether
\* one threw, and how many were completed.
RECURSIVE SetupAssign(_, _, _)
SetupAssign(tileStyle, json, i) ==
    IF i > Len(SetupOrder)
    THEN [that |-> tileStyle, threw |-> FALSE, ret |-> Undefined, assigned |-> i - 1]
    ELSE LET r == SetProperty(tileStyle, SetupOrder[i], Member(json, SetupOrder[i]), json)
         IN  IF r.threw
             THEN [that |-> r.that, threw |-> TRUE, ret |-> r.ret, assigned |-> i - 1]
             ELSE SetupAssign(r.that, json, i + 1)

\* A meta that is left undefined when the document has no meta member.
SetupMetaUndefinedWhenAbsent(json) ==
    LET defines == Member(json, "defines")
        metaJson == defaultValue(Member(json, "meta"), EMPTY_OBJECT)
        built == [k \in DOMAIN metaJson.members |-> Expression(metaJson.members[k].str, defines)]
    IN  IF ~defined(Member(json, "meta"))
        THEN [threw |-> FALSE, ret |-> Undefined]
        ELSE IF \E k \in DOMAIN built : built[k].threw
        THEN [threw |-> TRUE, ret |-> Error("SyntaxError")]
        ELSE [threw |-> FALSE, ret |-> Object([k \in DOMAIN built |-> built[k].ret])]

\* The meta object setup builds: one Expression per own key of styleJson.meta.
SetupMeta(json) ==
    LET defines == Member(json, "defines")
        metaJson == defaultValue(Member(json, "meta"), EMPTY_OBJECT)
        built == [k \in DOMAIN metaJson.members |-> Expression(metaJson.members[k].str, defines)]
    IN  IF ~defined(Member(json, "meta"))
        THEN [threw |-> FALSE, ret |-> EMPTY_OBJECT]
        ELSE IF \E k \in DOMAIN built : built[k].threw
        THEN [threw |-> TRUE, ret |-> Error("SyntaxError")]
        ELSE [threw |-> FALSE, ret |-> Object([k \in DOMAIN built |-> built[k].ret])]

\* setup that stores the raw document after the properties are assigned.
setupStoresLate(tileStyle, json) ==
    LET document == defaultValue(json, EMPTY_OBJECT)
        a == SetupAssign(tileStyle, document, 1)
        meta == SetupMeta(document)
    IN  IF a.threw
        THEN a
        ELSE IF meta.threw
        THEN [that |-> a.that, threw |-> TRUE, ret |-> meta.ret, assigned |-> a.assigned]
        ELSE [that |-> [a.that EXCEPT !._style = clone(json, TRUE), !._meta = meta.ret,
                                      !._ready = TRUE],
              threw |-> FALSE, ret |-> Undefined, assigned |-> a.assigned]

\* setup that publishes readiness also when an assignment has thrown.
setupPublishesAnyway(tileStyle, json) ==
    LET stored == [tileStyle EXCEPT !._style = clone(json, TRUE)]
        document == defaultValue(json, EMPTY_OBJECT)
        a == SetupAssign(stored, document, 1)
        meta == SetupMeta(document)
    IN  IF a.threw
        THEN [that |-> [a.that EXCEPT !._ready = TRUE], threw |-> TRUE, ret |-> a.ret,
              assigned |-> a.assigned]
        ELSE IF meta.threw
        THEN [that |-> [a.that EXCEPT !._ready = TRUE], threw |-> TRUE, ret |-> meta.ret,
              assigned |-> a.assigned]
        ELSE [that |-> [a.that EXCEPT !._meta = meta.ret, !._ready = TRUE],
              threw |-> FALSE, ret |-> Undefined, assigned |-> a.assigned]

\* setup that does not publish readiness.
setupLeavesNotReady(tileStyle, json) ==
    LET stored == [tileStyle EXCEPT !._style = clone(json, TRUE)]
        document == defaultValue(json, EMPTY_OBJECT)
        a == SetupAssign(stored, document, 1)
        meta == SetupMeta(document)
    IN  IF a.threw
        THEN a
        ELSE IF meta.threw
        THEN [that |-> a.that, threw |-> TRUE, ret |-> meta.ret, assigned |-> a.assigned]
        ELSE [that |-> [a.that EXCEPT !._meta = meta.ret],
              threw |-> FALSE, ret |-> Undefined, assigned |-> a.assigned]

\* setup that keeps a copy of the document made without the deep flag.
setupStoresShallowCopy(tileStyle, json) ==
    LET stored == [tileStyle EXCEPT !._style = clone(json, FALSE)]
        document == defaultValue(json, EMPTY_OBJECT)
        a == SetupAssign(stored, document, 1)
        meta == SetupMeta(document)
    IN  IF a.threw
        THEN a
        ELSE IF meta.threw
        THEN [that |-> a.that, threw |-> TRUE, ret |-> meta.ret, assigned |-> a.assigned]
        ELSE [that |-> [a.that EXCEPT !._meta = meta.ret, !._ready = TRUE],
              threw |-> FALSE, ret |-> Undefined, assigned |-> a.assigned]

\* setup(that, styleJson)
setup(tileStyle, json) ==
    LET stored == [tileStyle EXCEPT !._style = clone(json, TRUE)]
        document == defaultValue(json, EMPTY_OBJECT)
        a == SetupAssign(stored, document, 1)
        meta == SetupMeta(document)
    IN  IF a.threw
        THEN a
        ELSE IF meta.threw
        THEN [that |-> a.that, threw |-> TRUE, ret |-> meta.ret, assigned |-> a.assigned]
        ELSE [that |-> [a.that EXCEPT !._meta = meta.ret, !._ready = TRUE],
              threw |-> FALSE, ret |-> Undefined, assigned |-> a.assigned]

\* promise.then(callback) once promise is fulfilled: the derived promise is
\* fulfilled with what the callback returns (the style), or rejected with
\* what it throws.
Then(outcome) ==
    IF outcome.threw
    THEN [state |-> "rejected", value |-> outcome.ret]
    ELSE [state |-> "fulfilled", value |-> [type |-> "this"]]

\* An accessor that never sets the flag of its cache.
ShaderFunctionUnflagged(tileStyle, property, returnType, functionName, attributePrefix, shaderState, original) ==
    LET read == GetProperty(tileStyle, property, original)
        compiled == getShaderFunction(read.ret, functionName, attributePrefix, returnType)
    IN  IF tileStyle[ShaderFunctionReadyField(property)]
        THEN [that |-> tileStyle, threw |-> FALSE, ret |-> tileStyle[ShaderFunctionField(property)],
              shaderState |-> shaderState, invoked |-> FALSE]
        ELSE IF read.threw
        THEN [that |-> tileStyle, threw |-> TRUE, ret |-> read.ret,
              shaderState |-> shaderState, invoked |-> FALSE]
        ELSE IF ~defined(read.ret)
        THEN [that |-> [tileStyle EXCEPT ![ShaderFunctionField(property)] = Undefined],
              threw |-> FALSE, ret |-> Undefined, shaderState |-> shaderState, invoked |-> FALSE]
        ELSE IF ~HasGetShaderFunction(read.ret)
        THEN [that |-> tileStyle, threw |-> TRUE, ret |-> Error("TypeError"),
              shaderState |-> shaderState, invoked |-> FALSE]
        ELSE [that |-> [tileStyle EXCEPT ![ShaderFunctionField(property)] = compiled],
              threw |-> FALSE, ret |-> compiled,
              shaderState |-> ShaderStateAfter(read.ret, shaderState), invoked |-> TRUE]

\* An accessor that on a hit compiles again when the function name differs
\* from the one memoized.
ShaderFunctionKeyedByName(tileStyle, property, returnType, functionName, attributePrefix, shaderState, original) ==
    LET flagged == [tileStyle EXCEPT ![ShaderFunctionReadyField(property)] = TRUE]
        read == GetProperty(flagged, property, original)
        compiled == getShaderFunction(read.ret, functionName, attributePrefix, returnType)
        memoized == tileStyle[ShaderFunctionField(property)]
    IN  IF /\ tileStyle[ShaderFunctionReadyField(property)]
           /\ (~defined(memoized) \/ memoized.functionName = functionName)
        THEN [that |-> tileStyle, threw |-> FALSE, ret |-> memoized,
              shaderState |-> shaderState, invoked |-> FALSE]
        ELSE IF read.threw
        THEN [that |-> flagged, threw |-> TRUE, ret |-> read.ret,
              shaderState |-> shaderState, invoked |-> FALSE]
        ELSE IF ~defined(read.ret)
        THEN [that |-> [flagged EXCEPT ![ShaderFunctionField(property)] = Undefined],
              threw |-> FALSE, ret |-> Undefined, shaderState |-> shaderState, invoked |-> FALSE]
        ELSE IF ~HasGetShaderFunction(read.ret)
        THEN [that |-> flagged, threw |-> TRUE, ret |-> Error("TypeError"),
              shaderState |-> shaderState, invoked |-> FALSE]
        ELSE [that |-> [flagged EXCEPT ![ShaderFunctionField(property)] = compiled],
              threw |-> FALSE, ret |-> compiled,
              shaderState |-> ShaderStateAfter(read.ret, shaderState), invoked |-> TRUE]

\* A shader-function accessor of the style: the memoized value when the flag
\* is set; otherwise the flag is set first, then the property is read through
\* its getter and compiled.
ShaderFunction(tileStyle, property, returnType, functionName, attributePrefix, shaderState, original) ==
    LET flagged == [tileStyle EXCEPT ![ShaderFunctionReadyField(property)] = TRUE]
        read == GetProperty(flagged, property, original)
        compiled == getShaderFunction(read.ret, functionName, attributePrefix, returnType)
    IN  IF tileStyle[ShaderFunctionReadyField(property)]
        THEN [that |-> tileStyle, threw |-> FALSE, ret |-> tileStyle[ShaderFunctionField(property)],
              shaderState |-> shaderState, invoked |-> FALSE]
        ELSE IF read.threw
        THEN [that |-> flagged, threw |-> TRUE, ret |-> read.ret,
              shaderState |-> shaderState, invoked |-> FALSE]
        ELSE IF ~defined(read.ret)
        THEN [that |-> [flagged EXCEPT ![ShaderFunctionField(property)] = Undefined],
              threw |-> FALSE, ret |-> Undefined, shaderState |-> shaderState, invoked |-> FALSE]
        ELSE IF ~HasGetShaderFunction(read.ret)
        THEN [that |-> flagged, threw |-> TRUE, ret |-> Error("TypeError"),
              shaderState |-> shaderState, invoked |-> FALSE]
        ELSE [that |-> [flagged EXCEPT ![ShaderFunctionField(property)] = compiled],
              threw |-> FALSE, ret |-> compiled,
              shaderState |-> ShaderStateAfter(read.ret, shaderState), invoked |-> TRUE]

getColorShaderFunction(tileStyle, functionName, attributePrefix, shaderState, original) ==
    ShaderFunction(tileStyle, "color", "vec4", functionName, attributePrefix, shaderState, original)

\* The show accessor asking for the return type of the color accessor.
getShowShaderFunctionAsVec4(tileStyle, functionName, attributePrefix, shaderState, original) ==
    ShaderFunction(tileStyle, "show", "vec4", functionName, attributePrefix, shaderState, original)

getShowShaderFunction(tileStyle, functionName, attributePrefix, shaderState, original) ==
    ShaderFunction(tileStyle, "show", "bool", functionName, attributePrefix, shaderState, original)

getPointSizeShaderFunction(tileStyle, functionName, attributePrefix, shaderState, original) ==
    ShaderFunction(tileStyle, "pointSize", "float", functionName, attributePrefix, shaderState, original)

(***************************************************************************)
(* The environment: the documents, the values the application assigns and  *)
(* the arguments it passes.                                                *)
(***************************************************************************)
Conditions == [type |-> "array", items |-> << <<"${Height} > 2", SrcColor>>, <<"true", "color('blue')">> >>]
\* A conditions object as written in a style document.
ConditionsJson == StyleObject("conditionsJson", Conditions, FALSE)
\* A conditions object that also carries the StyleExpression methods.
ConditionsWithMethods == StyleObject("conditionsWithMethods", Conditions, TRUE)
\* A custom StyleExpression with evaluate, evaluateColor and getShaderFunction.
CustomExpression == StyleObject("custom", Undefined, TRUE)
\* A custom object with evaluate and evaluateColor only.
CustomEvaluateOnly == StyleObject("evaluateOnly", Undefined, FALSE)

DocumentA ==
    Object([show |-> Str(SrcHeight), color |-> ConditionsJson, pointSize |-> Str(SrcRegExp),
            labelText |-> Str(SrcDefine), origin |-> Num(1),
            defines |-> Object([h |-> Str("${Height}")]),
            meta |-> Object([description |-> Str(SrcDefine)])])
DocumentB ==
    Object([show |-> Bool(TRUE), color |-> Str(SrcColor), pointSize |-> Num(2),
            font |-> Str(SrcMalformed), image |-> Str(SrcHeight),
            defines |-> Object([h |-> Str("${Height}")])])

Documents == {DocumentA, DocumentB}
\* new Cesium3DTileStyle(style): no argument, a document or a url.
ConstructorArguments == {Undefined, Str("style.json")} \cup Documents

\* The values a stylable property can be given: one of every kind
\* getExpression and the shader-function accessors tell apart.
AllValues ==
    {Undefined, Null, Bool(FALSE), Num(3), Str(SrcColor), Str(SrcRegExp), Str(SrcMalformed),
     ConditionsWithMethods, CustomExpression, CustomEvaluateOnly}
\* The values the application assigns in the runs of the state machine.
Values ==
    {Undefined, Str(SrcColor), Str(SrcMalformed), CustomExpression, CustomEvaluateOnly}
\* The values the application assigns to meta.
MetaValues == {Undefined, Object([note |-> Str(SrcHeight)])}

\* The properties the application assigns: the three with a memoized shader
\* function and one without.
Exercised == ShaderProperties \cup {"pointColor"}

\* The function names and the attribute prefix the renderer passes to the
\* accessors; the color accessor is called under two names.
ColorFunctionNames == {"getColorFromStyle", "getColor"}
ShowFunctionNames == {"getShowFromStyle"}
PointSizeFunctionNames == {"getPointSizeFromStyle"}
AttributePrefixes == {"czm_tiles3d_style_"}
\* The shaderState object a caller passes.
NewShaderState == [translucent |-> FALSE]

\* What the caller's later edits make of the object it gave to the
\* constructor: show is replaced, and so is a define of the nested defines.
Mutated(object) ==
    Object([k \in DOMAIN object.members \cup {"show"} |->
               CASE k = "show" -> Bool(FALSE)
                 [] k = "defines" -> Object([h |-> Str("0")])
                 [] OTHER -> object.members[k]])

(***************************************************************************)
(* The state machine.                                                      *)
(***************************************************************************)
\* The record of an operation: hit tells that a shader-function accessor
\* found its flag set, invoked that it called getShaderFunction.
Op(op, property, value, args, outcome, shaderState) ==
    [op |-> op, property |-> property, value |-> value, args |-> args,
     threw |-> outcome.threw, ret |-> outcome.ret, shaderState |-> shaderState,
     hit |-> FALSE, invoked |-> FALSE]

NoShaderState == Undefined
Returned(value) == [threw |-> FALSE, ret |-> value]

\* getShaderFunction invocations since the last assignment, capped at 2.
Count(n, invoked) == IF invoked /\ n < MaxCalls THEN n + 1 ELSE n
\* The counters after the first n assignments of setup.
AfterSetup(counts, n) ==
    [p \in ShaderProperties |->
        IF \E i \in 1..n : SetupOrder[i] = p THEN 0 ELSE counts[p]]

\* A constructor that does nothing more when it is given no style.
Cesium3DTileStyleSkipsUndefined(style) ==
    IF typeof(style) = "string"
    THEN [that |-> NewStyle, request |-> "pending",
          readyPromise |-> [state |-> "pending", value |-> Undefined], assigned |-> 0]
    ELSE IF ~defined(style)
    THEN [that |-> NewStyle, request |-> "none",
          readyPromise |-> [state |-> "fulfilled", value |-> [type |-> "this"]], assigned |-> 0]
    ELSE LET r == setup(NewStyle, style)
         IN  [that |-> r.that, request |-> "none", readyPromise |-> Then(r),
              assigned |-> r.assigned]

\* new Cesium3DTileStyle(style): a url starts the request and leaves the
\* promise pending; anything else is applied by setup before the constructor
\* returns.
Cesium3DTileStyle(style) ==
    IF typeof(style) = "string"
    THEN [that |-> NewStyle, request |-> "pending",
          readyPromise |-> [state |-> "pending", value |-> Undefined], assigned |-> 0]
    ELSE LET r == setup(NewStyle, style)
         IN  [that |-> r.that, request |-> "none", readyPromise |-> Then(r),
              assigned |-> r.assigned]

\* No highlight range has been constructed.
NoHighlightRange ==
    /\ highlightRange = Undefined
    /\ listeners = <<>>
    /\ created = 0
    /\ topDiv = <<>>
    /\ rangeOp = Undefined

Init ==
    \E style \in ConstructorArguments :
        LET c == Cesium3DTileStyle(style)
        IN  /\ that = c.that
            /\ request = c.request
            /\ readyPromise = c.readyPromise
            /\ styleJson = (IF typeof(style) = "string" THEN Undefined ELSE style)
            /\ callerMutated = FALSE
            /\ loaded = (IF typeof(style) = "string" THEN Undefined ELSE style)
            /\ lastOp = Op("new", "", style, <<>>, Returned(Undefined), NoShaderState)
            /\ calls = AfterSetup([p \in ShaderProperties |-> 0], c.assigned)
            /\ nsets = 0
            /\ NoHighlightRange

\* A request that stays open after it has delivered a document.
LoadResolveRepeats(document) ==
    /\ request = "pending"
    /\ LET r == setup(that, document)
       IN  /\ that' = r.that
           /\ readyPromise' = Then(r)
           /\ calls' = AfterSetup(calls, r.assigned)
           /\ lastOp' = Op("load", "", document, <<>>, r, NoShaderState)
    /\ request' = "pending"
    /\ styleJson' = document
    /\ loaded' = document
    /\ UNCHANGED <<callerMutated, nsets>>
    /\ UNCHANGED rangeVars

\* The request succeeds with a document: the promise callback runs setup.
LoadResolve(document) ==
    /\ request = "pending"
    /\ LET r == setup(that, document)
       IN  /\ that' = r.that
           /\ readyPromise' = Then(r)
           /\ calls' = AfterSetup(calls, r.assigned)
           /\ lastOp' = Op("load", "", document, <<>>, r, NoShaderState)
    /\ request' = "resolved"
    /\ styleJson' = document
    /\ loaded' = document
    /\ UNCHANGED <<callerMutated, nsets>>
    /\ UNCHANGED rangeVars

\* A failure handler that applies an empty document.
LoadRejectSetsUp ==
    /\ request = "pending"
    /\ request' = "rejected"
    /\ LET r == setup(that, Undefined)
       IN  /\ that' = r.that
           /\ readyPromise' = Then(r)
           /\ calls' = AfterSetup(calls, r.assigned)
    /\ lastOp' = Op("load", "", Undefined, <<>>,
                    [threw |-> TRUE, ret |-> Error("RequestErrorEvent")], NoShaderState)
    /\ UNCHANGED <<styleJson, callerMutated, loaded, nsets>>
    /\ UNCHANGED rangeVars

\* The request fails: the promise callback never runs.
LoadReject ==
    /\ request = "pending"
    /\ request' = "rejected"
    /\ readyPromise' = [state |-> "rejected", value |-> Error("RequestErrorEvent")]
    /\ lastOp' = Op("load", "", Undefined, <<>>,
                    [threw |-> TRUE, ret |-> Error("RequestErrorEvent")], NoShaderState)
    /\ UNCHANGED <<that, styleJson, callerMutated, loaded, calls, nsets>>
    /\ UNCHANGED rangeVars

\* style.<property> = value
Set(property, value) ==
    /\ nsets < MaxSets
    /\ LET r == SetProperty(that, property, value, styleJson)
       IN  /\ that' = r.that
           /\ lastOp' = Op("set", property, value, <<>>, r, NoShaderState)
           /\ calls' = IF property \in ShaderProperties /\ ~r.threw
                       THEN [calls EXCEPT ![property] = 0]
                       ELSE calls
    /\ nsets' = nsets + 1
    /\ UNCHANGED <<readyPromise, request, styleJson, callerMutated, loaded>>
    /\ UNCHANGED rangeVars

\* style.meta = value
SetMetaProperty(value) ==
    /\ nsets < MaxSets
    /\ LET r == SetMeta(that, value)
       IN  /\ that' = r.that
           /\ lastOp' = Op("set", "meta", value, <<>>, r, NoShaderState)
    /\ nsets' = nsets + 1
    /\ UNCHANGED <<readyPromise, request, styleJson, callerMutated, loaded, calls>>
    /\ UNCHANGED rangeVars

\* The reads the application makes: any before its first assignment, and
\* afterwards style and the property it has just assigned.
Get(property) ==
    /\ nsets = 0 \/ property = "style" \/ (lastOp.op = "set" /\ lastOp.property = property)
    /\ lastOp' = Op("get", property, Undefined, <<>>,
                    GetProperty(that, property, styleJson), NoShaderState)
    /\ UNCHANGED <<that, readyPromise, request, styleJson, callerMutated, loaded, calls, nsets>>
    /\ UNCHANGED rangeVars

\* style.ready is read
GetReady ==
    /\ nsets = 0
    /\ lastOp' = Op("get", "ready", Undefined, <<>>, Returned(Bool(that._ready)), NoShaderState)
    /\ UNCHANGED <<that, readyPromise, request, styleJson, callerMutated, loaded, calls, nsets>>
    /\ UNCHANGED rangeVars

\* style.readyPromise is read
GetReadyPromise ==
    /\ nsets = 0
    /\ lastOp' = Op("get", "readyPromise", Undefined, <<>>,
                    Returned([type |-> "promise", state |-> readyPromise.state]), NoShaderState)
    /\ UNCHANGED <<that, readyPromise, request, styleJson, callerMutated, loaded, calls, nsets>>
    /\ UNCHANGED rangeVars

\* One of the three shader-function accessors is called.
CallShaderFunction(property, r, functionName, attributePrefix) ==
    /\ that' = r.that
    /\ lastOp' = [Op("getShaderFunction", property, Undefined,
                      <<functionName, attributePrefix>>, r, r.shaderState)
                      EXCEPT !.hit = that[ShaderFunctionReadyField(property)],
                             !.invoked = r.invoked]
    /\ calls' = [calls EXCEPT ![property] = Count(@, r.invoked)]
    /\ UNCHANGED <<readyPromise, request, styleJson, callerMutated, loaded, nsets>>
    /\ UNCHANGED rangeVars

GetColorShaderFunction(functionName, attributePrefix) ==
    CallShaderFunction("color",
        getColorShaderFunction(that, functionName, attributePrefix, NewShaderState, styleJson),
        functionName, attributePrefix)

GetShowShaderFunction(functionName, attributePrefix) ==
    CallShaderFunction("show",
        getShowShaderFunction(that, functionName, attributePrefix, NewShaderState, styleJson),
        functionName, attributePrefix)

GetPointSizeShaderFunction(functionName, attributePrefix) ==
    CallShaderFunction("pointSize",
        getPointSizeShaderFunction(that, functionName, attributePrefix, NewShaderState, styleJson),
        functionName, attributePrefix)

\* The caller edits the object it gave to the constructor.
MutateCallerObject ==
    /\ request = "none"
    /\ defined(styleJson)
    /\ ~callerMutated
    /\ styleJson' = Mutated(styleJson)
    /\ callerMutated' = TRUE
    /\ lastOp' = Op("mutate", "", Undefined, <<>>, Returned(Undefined), NoShaderState)
    /\ UNCHANGED <<that, readyPromise, request, loaded, calls, nsets>>
    /\ UNCHANGED rangeVars

Next ==
    \/ \E document \in Documents : LoadResolve(document)
    \/ LoadReject
    \/ \E property \in Exercised, value \in Values : Set(property, value)
    \/ \E value \in MetaValues : SetMetaProperty(value)
    \/ \E property \in GuardedProperties : Get(property)
    \/ GetReady
    \/ GetReadyPromise
    \/ \E functionName \in ColorFunctionNames, attributePrefix \in AttributePrefixes :
           GetColorShaderFunction(functionName, attributePrefix)
    \/ \E functionName \in ShowFunctionNames, attributePrefix \in AttributePrefixes :
           GetShowShaderFunction(functionName, attributePrefix)
    \/ \E functionName \in PointSizeFunctionNames, attributePrefix \in AttributePrefixes :
           GetPointSizeShaderFunction(functionName, attributePrefix)
    \/ MutateCallerObject

Spec == Init /\ [][Next]_vars

(***************************************************************************)
(* What the claims are stated with.                                        *)
(***************************************************************************)
\* The expression sources of a value, as far as the parser sees them.
SourcesIn(value) ==
    CASE value.type = "string" -> {value.str}
      [] value.type = "object" /\ "conditions" \in DOMAIN value /\ defined(value.conditions) ->
            {value.conditions.items[i][j] : i \in DOMAIN value.conditions.items, j \in 1..2}
      [] OTHER -> {}

\* Every expression of a document can be constructed.
WellFormed(document) ==
    \/ ~defined(document)
    \/ /\ \A k \in DOMAIN document.members \cap StylableProperties :
              SourcesIn(document.members[k]) \cap MalformedSources = {}
       /\ \A k \in DOMAIN defaultValue(Member(document, "meta"), EMPTY_OBJECT).members :
              SourcesIn(Member(document, "meta").members[k]) \cap MalformedSources = {}

\* The text of the numbers and booleans the model uses.
LiteralText(value) ==
    CASE value = Bool(TRUE) -> "true"
      [] value = Bool(FALSE) -> "false"
      [] value = Num(1) -> "1"
      [] value = Num(2) -> "2"
      [] value = Num(3) -> "3"

\* What a stylable property holds after value was assigned to it in a style
\* whose document has these defines.
Assigned(value, defines) ==
    CASE value.type \in {"undefined", "null"} -> Undefined
      [] value.type \in {"boolean", "number"} ->
            [type |-> "Expression", expression |-> LiteralText(value), defines |-> Undefined]
      [] value.type = "string" ->
            [type |-> "Expression", expression |-> value.str, defines |-> defines]
      [] value.type = "object" /\ value.conditions # Undefined /\ value.conditions # Null ->
            [type |-> "ConditionsExpression", conditionsExpression |-> value, defines |-> defines]
      [] OTHER -> value

\* The return type each accessor asks for.
ReturnType(property) ==
    CASE property = "color" -> "vec4"
      [] property = "show" -> "bool"
      [] property = "pointSize" -> "float"

\* What compiling an expression yields: undefined for no expression.
CompiledOf(expression, functionName, attributePrefix, returnType) ==
    IF ~defined(expression)
    THEN Undefined
    ELSE getShaderFunction(expression, functionName, attributePrefix, returnType)

\* The defines of the document the style was loaded from.
DocumentDefines == Member(loaded, "defines")

\* The text String() gives the booleans and numbers of the model.
LiteralTexts == {"true", "false", "1", "2", "3"}

\* The state was reached by reading a property.  A read changes neither the
\* style nor the documents, so every assignment that could follow it is the
\* assignment that could follow the state it was made in, where the
\* properties below examine it.
AfterRead == lastOp.op = "get"

(***************************************************************************)
(* C1.  While the style is not ready, reading style, any stylable property *)
(* or meta fails with the not-loaded error and returns no value; reading   *)
(* ready and readyPromise never fails.                                     *)
(***************************************************************************)
C1_GettersFailUntilReady ==
    /\ ~that._ready =>
          \A p \in GuardedProperties :
              GetProperty(that, p, styleJson) = [threw |-> TRUE, ret |-> NotLoadedError]
    /\ (lastOp.op = "get" /\ lastOp.property \in GuardedProperties /\ ~that._ready) =>
          (lastOp.threw /\ lastOp.ret = NotLoadedError)
    /\ (lastOp.op = "get" /\ lastOp.property \in {"ready", "readyPromise"}) =>
          (~lastOp.threw /\ lastOp.ret.type \in {"boolean", "promise"})

C1_Witness ==
    /\ ~that._ready
    /\ request = "pending"
    /\ lastOp.op = "get"
    /\ lastOp.property = "labelText"
    /\ lastOp.threw

(***************************************************************************)
(* C2.  A style constructed from an inline object is ready when the        *)
(* constructor returns, with no pending load; one constructed from a url   *)
(* is not ready until the load settles; the request is started only for a  *)
(* url.                                                                    *)
(***************************************************************************)
\* As claimed: every inline object makes the style ready.
C2_InlineAlwaysReady ==
    /\ lastOp.op = "new" =>
          /\ (request = "pending") <=> (lastOp.value.type = "string")
          /\ lastOp.value.type # "string" => that._ready
    /\ request = "pending" => ~that._ready

\* A style constructed from an inline document whose font cannot be parsed:
\* no load is pending and the style is not ready.
C2_Witness ==
    /\ lastOp.op = "new"
    /\ lastOp.value = DocumentB
    /\ request = "none"
    /\ ~that._ready
    /\ readyPromise.state = "rejected"

(***************************************************************************)
(* C3.  While the style is not ready, assigning a property through its     *)
(* setter fails with the not-ready error and changes neither the stored    *)
(* expression nor a cache flag.                                            *)
(***************************************************************************)
\* As claimed.
C3_SettersFailUntilReady ==
    (lastOp.op = "set" /\ ~that._ready) => (lastOp.threw /\ lastOp.ret = NotLoadedError)

\* A style whose load is pending and whose color was assigned without an error.
C3_Witness ==
    /\ ~that._ready
    /\ request = "pending"
    /\ lastOp.op = "set"
    /\ lastOp.property = "color"
    /\ ~lastOp.threw
    /\ that._color = [type |-> "Expression", expression |-> SrcColor, defines |-> Undefined]

(***************************************************************************)
(* C4.  Ready is terminal: once _ready is true no assignment (valid or     *)
(* failing), read or shader-function accessor call makes it false.         *)
(***************************************************************************)
C4_ReadyIsTerminal == [][that._ready => that'._ready]_vars

C4_Witness ==
    /\ that._ready
    /\ nsets = 1
    /\ that._color = CustomEvaluateOnly
    /\ lastOp.op = "getShaderFunction"
    /\ lastOp.property = "color"
    /\ lastOp.threw

(***************************************************************************)
(* C5.  The three shader-function caches are invalidated independently:    *)
(* assigning color, show or pointSize clears the flag of that cache only   *)
(* and changes no memoized value; assigning any other property, or meta,   *)
(* changes no cache.  A show shader function cached before color is        *)
(* assigned is returned from the cache afterwards.                         *)
(***************************************************************************)
C5_CachesInvalidatedIndependently ==
    /\ ~AfterRead => \A p \in StylableProperties, v \in AllValues :
          LET r == SetProperty(that, p, v, styleJson)
          IN  /\ \A q \in ShaderProperties :
                    r.that[ShaderFunctionField(q)] = that[ShaderFunctionField(q)]
              /\ \A q \in ShaderProperties \ {p} :
                    r.that[ShaderFunctionReadyField(q)] = that[ShaderFunctionReadyField(q)]
              /\ (p \in ShaderProperties /\ ~r.threw) => ~r.that[ShaderFunctionReadyField(p)]
              /\ (p = "color" /\ that._showShaderFunctionReady) =>
                    \A f \in ShowFunctionNames, a \in AttributePrefixes :
                        LET g == getShowShaderFunction(r.that, f, a, NewShaderState, styleJson)
                        IN  ~g.threw /\ ~g.invoked /\ g.ret = that._showShaderFunction
    /\ \A v \in MetaValues, q \in ShaderProperties :
          /\ SetMeta(that, v).that[ShaderFunctionField(q)] = that[ShaderFunctionField(q)]
          /\ SetMeta(that, v).that[ShaderFunctionReadyField(q)] = that[ShaderFunctionReadyField(q)]
    /\ (lastOp.op = "getShaderFunction" /\ lastOp.hit) =>
          /\ ~lastOp.threw
          /\ ~lastOp.invoked
          /\ lastOp.ret = that[ShaderFunctionField(lastOp.property)]

C5_Witness ==
    /\ that._ready
    /\ nsets = 1
    /\ that._color = CustomExpression
    /\ ~that._colorShaderFunctionReady
    /\ lastOp.op = "getShaderFunction"
    /\ lastOp.property = "show"
    /\ lastOp.hit
    /\ lastOp.ret.type = "shader"

(***************************************************************************)
(* C6.  Between two consecutive assignments of color, show or pointSize    *)
(* the expression's getShaderFunction is invoked at most once, however     *)
(* often the accessor is called, also when the result is undefined.        *)
(***************************************************************************)
C6_CompiledAtMostOnce ==
    /\ \A p \in ShaderProperties : calls[p] <= 1
    /\ (lastOp.op = "getShaderFunction" /\ lastOp.invoked) =>
          (~lastOp.hit /\ calls[lastOp.property] = 1)

C6_Witness ==
    /\ that._ready
    /\ that._pointSize.type = "Expression"
    /\ that._pointSize.expression = SrcRegExp
    /\ calls["pointSize"] = 1
    /\ lastOp.op = "getShaderFunction"
    /\ lastOp.property = "pointSize"
    /\ lastOp.hit
    /\ lastOp.ret = Undefined

(***************************************************************************)
(* C7.  Reassigning color, show or pointSize on a ready style, with any    *)
(* value, discards the old expression and invalidates the memoized shader  *)
(* function lazily: the setter compiles nothing, and the next accessor     *)
(* call compiles the new expression and returns that result, never the     *)
(* one memoized for the previous expression.                               *)
(***************************************************************************)
\* The first accessor call after an assignment returns the result of
\* compiling the expression now assigned, and a later call that is answered
\* from the cache returns a function compiled from that expression too.
C7_NextCallReturnsCompiled ==
    /\ (that._ready /\ lastOp.op = "getShaderFunction" /\ ~lastOp.hit) =>
          /\ ~lastOp.threw
          /\ lastOp.ret = CompiledOf(that[Field(lastOp.property)], lastOp.args[1],
                                     lastOp.args[2], ReturnType(lastOp.property))
    /\ (that._ready /\ lastOp.op = "getShaderFunction" /\ lastOp.hit /\ defined(lastOp.ret)) =>
          lastOp.ret.of = that[Field(lastOp.property)]

\* The accessor has raised a TypeError on an assigned object that has no
\* getShaderFunction, after marking its cache valid.
C7_Witness ==
    /\ that._ready
    /\ nsets = 1
    /\ that._color = CustomEvaluateOnly
    /\ that._colorShaderFunctionReady
    /\ lastOp.op = "getShaderFunction"
    /\ lastOp.property = "color"
    /\ ~lastOp.hit
    /\ lastOp.threw
    /\ lastOp.ret = Error("TypeError")

(***************************************************************************)
(* C8.  After value v is assigned to a stylable property of a ready style  *)
(* the getter returns undefined for undefined and null, an Expression of   *)
(* String(v) for a boolean or a number, an Expression of v for a string,   *)
(* a ConditionsExpression of v for an object whose conditions member is    *)
(* defined, and v itself in every other case.                              *)
(***************************************************************************)
C8_GetterReturnsExpressionOfValue ==
    /\ (that._ready /\ ~AfterRead) =>
          \A p \in StylableProperties, v \in AllValues :
              LET r == SetProperty(that, p, v, styleJson)
                  g == GetProperty(r.that, p, styleJson)
              IN  /\ r.threw <=> (SourcesIn(v) \cap MalformedSources # {})
                  /\ ~r.threw => (~g.threw /\ g.ret = Assigned(v, DocumentDefines))
    /\ (that._ready /\ lastOp.op = "set" /\ ~lastOp.threw /\ lastOp.property # "meta") =>
          that[Field(lastOp.property)] = Assigned(lastOp.value, DocumentDefines)
    /\ (that._ready /\ lastOp.op = "get" /\ lastOp.property \in StylableProperties) =>
          (~lastOp.threw /\ lastOp.ret = that[Field(lastOp.property)])

C8_Witness ==
    /\ that._ready
    /\ nsets = 1
    /\ lastOp.op = "get"
    /\ lastOp.property = "pointColor"
    /\ lastOp.ret = CustomEvaluateOnly

(***************************************************************************)
(* C9.  Every Expression and ConditionsExpression the style builds from a  *)
(* string or a conditions value gets the defines of the loaded document,   *)
(* in the assignments of the load and in every setter call on the ready    *)
(* style; boolean and number literals are built without defines.           *)
(***************************************************************************)
C9_ExpressionsShareDocumentDefines ==
    /\ that._ready =>
          \A p \in StylableProperties :
              LET e == that[Field(p)]
              IN  e.type \in {"Expression", "ConditionsExpression"} =>
                     e.defines = (IF e.type = "Expression" /\ e.expression \in LiteralTexts
                                  THEN Undefined
                                  ELSE DocumentDefines)
    /\ that._ready =>
          \A v \in AllValues :
              LET e == getExpression(that, v, styleJson)
              IN  (~e.threw /\ v.type \in {"boolean", "number", "string", "object"}
                     /\ e.ret.type \in {"Expression", "ConditionsExpression"}) =>
                     e.ret.defines = (IF v.type \in {"boolean", "number"}
                                      THEN Undefined
                                      ELSE DocumentDefines)

C9_Witness ==
    /\ that._ready
    /\ callerMutated
    /\ nsets = 1
    /\ lastOp.op = "set"
    /\ lastOp.property = "pointColor"
    /\ that._pointColor = [type |-> "Expression", expression |-> SrcColor,
                           defines |-> Object([h |-> Str("${Height}")])]
    /\ that._labelText = [type |-> "Expression", expression |-> SrcDefine,
                          defines |-> Object([h |-> Str("${Height}")])]

(***************************************************************************)
(* C10.  Once the style is ready the style getter returns a document equal *)
(* to the one loaded, whatever properties are assigned, accessors called   *)
(* or edits made to the object given to the constructor afterwards.        *)
(***************************************************************************)
C10_StyleReturnsLoadedDocument ==
    /\ that._ready =>
          GetProperty(that, "style", styleJson) = [threw |-> FALSE, ret |-> loaded]
    /\ (that._ready /\ lastOp.op = "get" /\ lastOp.property = "style") =>
          (~lastOp.threw /\ lastOp.ret = loaded)

C10_Witness ==
    /\ that._ready
    /\ callerMutated
    /\ nsets = 1
    /\ that._colorShaderFunctionReady
    /\ styleJson # DocumentA
    /\ lastOp.op = "get"
    /\ lastOp.property = "style"
    /\ lastOp.ret = DocumentA

(***************************************************************************)
(* C11.  A failed load is terminal: readyPromise is rejected with the load *)
(* error, ready stays false, every guarded getter keeps failing with the   *)
(* not-loaded error, and no second request is started.                     *)
(***************************************************************************)
C11_FailedIsTerminal ==
    /\ [](request = "rejected" =>
            /\ ~that._ready
            /\ readyPromise = [state |-> "rejected", value |-> Error("RequestErrorEvent")]
            /\ \A p \in GuardedProperties :
                  GetProperty(that, p, styleJson) = [threw |-> TRUE, ret |-> NotLoadedError]
            /\ (lastOp.op = "get" /\ lastOp.property \in GuardedProperties) =>
                  (lastOp.threw /\ lastOp.ret = NotLoadedError))
    /\ [][request = "rejected" => request' = "rejected"]_vars

C11_Witness ==
    /\ request = "rejected"
    /\ nsets = 1
    /\ that._color # Undefined
    /\ lastOp.op = "get"
    /\ lastOp.property = "color"
    /\ lastOp.threw

(***************************************************************************)
(* C12.  The load is one-shot: readyPromise, once settled, keeps its       *)
(* settlement; setup (whose first effect is to store the document) runs    *)
(* only in the step that completes the pending request, a request that has *)
(* left the pending state stays as it is, and ready becomes true only in   *)
(* that step and never false again.                                        *)
(***************************************************************************)
C12_LoadIsOneShot ==
    [][/\ readyPromise.state # "pending" => readyPromise' = readyPromise
       /\ request # "pending" => request' = request
       /\ (that'._style # that._style \/ lastOp'.op = "load") =>
             (request = "pending" /\ request' # "pending")
       /\ (that'._ready # that._ready) =>
             (~that._ready /\ request = "pending" /\ request' = "resolved")]_vars

C12_Witness ==
    /\ request = "resolved"
    /\ readyPromise.state = "fulfilled"
    /\ that._ready
    /\ nsets = 1
    /\ lastOp.op = "getShaderFunction"
    /\ lastOp.invoked

(***************************************************************************)
(* C13.  While the request is pending every call of getColorShaderFunction, *)
(* getShowShaderFunction and getPointSizeShaderFunction, the first and     *)
(* every repeated one, throws the not-loaded error and returns no value.   *)
(***************************************************************************)
C13_AccessorsRefusedWhileLoading ==
    /\ (request = "pending" /\ lastOp.op = "getShaderFunction") =>
          (lastOp.threw /\ lastOp.ret = NotLoadedError)
    /\ request = "pending" =>
          \A p \in ShaderProperties :
              LET g == ShaderFunction(that, p, ReturnType(p), "f", "a", NewShaderState, styleJson)
              IN  g.threw /\ g.ret = NotLoadedError

\* The second call of an accessor made while the request is pending has
\* returned undefined from the cache.
C13_Witness ==
    /\ request = "pending"
    /\ ~that._ready
    /\ nsets = 0
    /\ lastOp.op = "getShaderFunction"
    /\ lastOp.property = "color"
    /\ lastOp.hit
    /\ ~lastOp.threw
    /\ lastOp.ret = Undefined

(***************************************************************************)
(* C14.  When the load succeeds readyPromise is fulfilled with the style   *)
(* itself, and in every state where the promise is fulfilled (the states   *)
(* in which its handlers run) ready is true and every getter succeeds.     *)
(***************************************************************************)
C14_FulfilledMeansReady ==
    /\ readyPromise.state = "fulfilled" =>
          /\ readyPromise.value = [type |-> "this"]
          /\ that._ready
          /\ \A p \in GuardedProperties : ~GetProperty(that, p, styleJson).threw
          /\ (lastOp.op = "get" /\ lastOp.property \in GuardedProperties) => ~lastOp.threw
    /\ (request = "resolved" /\ WellFormed(loaded)) => readyPromise.state = "fulfilled"
    /\ request = "pending" => readyPromise.state = "pending"

C14_Witness ==
    /\ request = "resolved"
    /\ loaded = DocumentA
    /\ readyPromise = [state |-> "fulfilled", value |-> [type |-> "this"]]
    /\ lastOp.op = "get"
    /\ lastOp.property = "labelText"
    /\ ~lastOp.threw
    /\ lastOp.ret # Undefined

\* The meta object of a loaded document: its own keys, each an Expression
\* with the document's defines; an empty object without a meta member.
MetaOf(document) ==
    IF ~defined(Member(document, "meta"))
    THEN EMPTY_OBJECT
    ELSE Object([k \in DOMAIN Member(document, "meta").members |->
                    [type |-> "Expression",
                     expression |-> Member(document, "meta").members[k].str,
                     defines |-> Member(document, "defines")]])

\* The style holds what setup derives from the loaded document.
HoldsLoaded ==
    /\ Deref(that._style, styleJson) = loaded
    /\ \A p \in StylableProperties :
          that[Field(p)] = Assigned(Member(loaded, p), DocumentDefines)
    /\ that._meta = MetaOf(loaded)

(***************************************************************************)
(* C15.  Readiness is published last: when ready has become true (at       *)
(* construction or by the load, and until the application assigns a        *)
(* property again) the raw document is stored, each of the 25 properties   *)
(* holds the expression of the document key of its name (undefined if the  *)
(* key is absent) and meta is built; nothing assigned before the load      *)
(* remains.                                                                *)
(***************************************************************************)
C15_ReadyPublishedLast ==
    /\ (that._ready /\ lastOp.op \in {"new", "load"}) => HoldsLoaded
    /\ (that._ready /\ nsets = 0) => HoldsLoaded
    /\ ~that._ready => readyPromise.state # "fulfilled"

C15_Witness ==
    /\ that._ready
    /\ lastOp.op = "load"
    /\ nsets = 1
    /\ loaded = DocumentA
    /\ that._pointColor = Undefined
    /\ that._font = Undefined
    /\ that._color.type = "ConditionsExpression"

\* The value holds an expression the parser rejects.
Malformed(value) == SourcesIn(value) \cap MalformedSources # {}

(***************************************************************************)
(* C16.  A malformed expression is reported synchronously to the caller    *)
(* that supplied it: a setter call with a malformed string throws in that  *)
(* call, and constructing a style from an inline document that holds a     *)
(* malformed expression throws in the constructor call.                    *)
(***************************************************************************)
\* As stated, for the setter and the constructor alike.
C16_MalformedThrowsAtCaller ==
    /\ (lastOp.op = "set" /\ lastOp.property # "meta" /\ Malformed(lastOp.value)) =>
          (lastOp.threw /\ lastOp.ret = Error("SyntaxError"))
    /\ (lastOp.op = "new" /\ lastOp.value.type # "string" /\ ~WellFormed(lastOp.value)) =>
          (lastOp.threw /\ lastOp.ret = Error("SyntaxError"))

\* The constructor returned for an inline document with a malformed font: it
\* threw nothing, color is assigned, font is not, the promise is rejected.
C16_Witness ==
    /\ lastOp.op = "new"
    /\ lastOp.value = DocumentB
    /\ ~lastOp.threw
    /\ ~that._ready
    /\ that._color # Undefined
    /\ that._font = Undefined
    /\ readyPromise = [state |-> "rejected", value |-> Error("SyntaxError")]

\* What a call of the accessor of property p has to produce on a cache miss
\* of a ready style whose p holds expression e.
DelegatesTo(g, e, p, functionName, attributePrefix, shaderState) ==
    CASE ~defined(e) ->
            /\ ~g.threw
            /\ g.ret = Undefined
            /\ ~g.invoked
            /\ g.shaderState = shaderState
      [] defined(e) /\ HasGetShaderFunction(e) ->
            /\ ~g.threw
            /\ g.invoked
            /\ g.ret = getShaderFunction(e, functionName, attributePrefix, ReturnType(p))
            /\ g.shaderState = ShaderStateAfter(e, shaderState)
      [] OTHER ->
            /\ g.threw
            /\ g.ret = Error("TypeError")
            /\ ~g.invoked

(***************************************************************************)
(* C17.  On a cache miss of a ready style each accessor calls              *)
(* getShaderFunction of the current color, show or pointSize expression    *)
(* with the functionName, attributePrefix and shaderState it was given and *)
(* the return type vec4, bool or float, and returns what that call         *)
(* returns; for an undefined property it returns undefined and calls no    *)
(* compiler.  (Calling the method of an object that has none raises a      *)
(* TypeError.)                                                             *)
(***************************************************************************)
C17_MissDelegatesToExpression ==
    /\ (that._ready /\ lastOp.op = "getShaderFunction" /\ ~lastOp.hit) =>
          DelegatesTo(lastOp, that[Field(lastOp.property)], lastOp.property,
                      lastOp.args[1], lastOp.args[2], NewShaderState)
    /\ (that._ready /\ ~AfterRead) =>
          \A f \in ColorFunctionNames, a \in AttributePrefixes :
              /\ ~that._colorShaderFunctionReady =>
                    DelegatesTo(getColorShaderFunction(that, f, a, NewShaderState, styleJson),
                                that._color, "color", f, a, NewShaderState)
              /\ ~that._showShaderFunctionReady =>
                    DelegatesTo(getShowShaderFunction(that, f, a, NewShaderState, styleJson),
                                that._show, "show", f, a, NewShaderState)
              /\ ~that._pointSizeShaderFunctionReady =>
                    DelegatesTo(getPointSizeShaderFunction(that, f, a, NewShaderState, styleJson),
                                that._pointSize, "pointSize", f, a, NewShaderState)

C17_Witness ==
    /\ that._ready
    /\ lastOp.op = "getShaderFunction"
    /\ lastOp.property = "show"
    /\ ~lastOp.hit
    /\ lastOp.invoked
    /\ lastOp.ret.type = "shader"
    /\ lastOp.ret.returnType = "bool"
    /\ lastOp.ret.of = that._show
    /\ lastOp.args = <<"getShowFromStyle", "czm_tiles3d_style_">>

\* The style was constructed with no argument.
NoArgument == request = "none" /\ loaded = Undefined

(***************************************************************************)
(* C18.  A style constructed with no argument is ready at once: every      *)
(* stylable property reads undefined, meta reads as an empty object, the   *)
(* style getter returns undefined, the three accessors return undefined,   *)
(* and properties can be assigned as on any ready style.                   *)
(***************************************************************************)
C18_NoArgumentStyle ==
    NoArgument =>
        /\ that._ready
        /\ readyPromise = [state |-> "fulfilled", value |-> [type |-> "this"]]
        /\ nsets = 0 =>
              /\ \A p \in StylableProperties \cup {"style"} :
                    GetProperty(that, p, styleJson) = Returned(Undefined)
              /\ GetProperty(that, "meta", styleJson) = Returned(EMPTY_OBJECT)
              /\ \A p \in ShaderProperties, f \in ColorFunctionNames, a \in AttributePrefixes :
                    LET g == ShaderFunction(that, p, ReturnType(p), f, a, NewShaderState, styleJson)
                    IN  ~g.threw /\ g.ret = Undefined /\ ~g.invoked
              /\ lastOp.op \in {"get", "getShaderFunction"} =>
                    /\ ~lastOp.threw
                    /\ lastOp.ret = CASE lastOp.property = "meta" -> EMPTY_OBJECT
                                       [] lastOp.property = "ready" -> Bool(TRUE)
                                       [] lastOp.property = "readyPromise" ->
                                             [type |-> "promise", state |-> "fulfilled"]
                                       [] OTHER -> Undefined
              /\ ~AfterRead =>
                    \A p \in StylableProperties, v \in AllValues :
                        LET r == SetProperty(that, p, v, styleJson)
                        IN  /\ r.threw <=> Malformed(v)
                            /\ ~r.threw =>
                                  GetProperty(r.that, p, styleJson) =
                                      Returned(Assigned(v, Undefined))
        /\ (lastOp.op = "set" /\ lastOp.property # "meta" /\ ~lastOp.threw) =>
              that[Field(lastOp.property)] = Assigned(lastOp.value, Undefined)
        /\ Deref(that._style, styleJson) = Undefined

C18_Witness ==
    /\ NoArgument
    /\ that._ready
    /\ nsets = 1
    /\ lastOp.op = "get"
    /\ lastOp.property = "color"
    /\ ~lastOp.threw
    /\ lastOp.ret = [type |-> "Expression", expression |-> SrcColor, defines |-> Undefined]

\* The own keys of the meta member of a document (none without the member).
MetaKeys(document) ==
    IF defined(Member(document, "meta")) THEN DOMAIN Member(document, "meta").members ELSE {}

(***************************************************************************)
(* C19.  After a successful load (and until meta is assigned) meta is an   *)
(* object whose keys are exactly the own keys of the document's meta       *)
(* member, each mapped to an Expression of that member's value with the    *)
(* document's defines; without a meta member, or without a document, it is *)
(* an empty object, never undefined.                                       *)
(***************************************************************************)
C19_MetaBuiltFromDocument ==
    (that._ready /\ (nsets = 0 \/ lastOp.op = "load")) =>
        LET m == GetProperty(that, "meta", styleJson)
        IN  /\ ~m.threw
            /\ m.ret.type = "object"
            /\ DOMAIN m.ret.members = MetaKeys(loaded)
            /\ \A k \in MetaKeys(loaded) :
                  m.ret.members[k] =
                      [type |-> "Expression",
                       expression |-> Member(loaded, "meta").members[k].str,
                       defines |-> DocumentDefines]
            /\ MetaKeys(loaded) = {} => m.ret = EMPTY_OBJECT
            /\ (lastOp.op = "get" /\ lastOp.property = "meta") =>
                  (~lastOp.threw /\ lastOp.ret = m.ret)

C19_Witness ==
    /\ that._ready
    /\ request = "resolved"
    /\ loaded = DocumentA
    /\ lastOp.op = "get"
    /\ lastOp.property = "meta"
    /\ DOMAIN lastOp.ret.members = {"description"}
    /\ lastOp.ret.members["description"] =
          [type |-> "Expression", expression |-> SrcDefine,
           defines |-> Object([h |-> Str("${Height}")])]

(***************************************************************************)
(* C20.  Assigning meta stores the value verbatim: it is not turned into   *)
(* Expressions, the getter then returns the same value, and no other       *)
(* property, cache flag, raw document or ready flag changes.               *)
(***************************************************************************)
C20_MetaStoredVerbatim ==
    /\ [](
          /\ ~AfterRead =>
                \A v \in MetaValues \cup AllValues :
                    LET r == SetMeta(that, v)
                    IN  /\ r = [that |-> [that EXCEPT !._meta = v], threw |-> FALSE,
                                 ret |-> Undefined]
                        /\ that._ready => (GetProperty(r.that, "meta", styleJson) = Returned(v))
          /\ (lastOp.op = "set" /\ lastOp.property = "meta") =>
                (~lastOp.threw /\ that._meta = lastOp.value)
          /\ (that._ready /\ lastOp.op = "get" /\ lastOp.property = "meta" /\ nsets > 0) =>
                (lastOp.ret = that._meta)
         )
    /\ [][(lastOp'.op = "set" /\ lastOp'.property = "meta" /\ nsets' # nsets) =>
             /\ that' = [that EXCEPT !._meta = lastOp'.value]
             /\ UNCHANGED <<readyPromise, request, styleJson, loaded, calls>>]_vars

C20_Witness ==
    /\ that._ready
    /\ nsets = 1
    /\ lastOp.op = "get"
    /\ lastOp.property = "meta"
    /\ ~lastOp.threw
    /\ lastOp.ret = Object([note |-> Str(SrcHeight)])
    /\ that._meta = lastOp.ret

(***************************************************************************)
(* C21.  An assignment that fails because the expression cannot be built   *)
(* leaves the style unchanged: the property keeps its expression, its      *)
(* cache flag and memoized function are not touched, and every other       *)
(* property, the raw document and ready are as before.                     *)
(***************************************************************************)
C21_FailedAssignmentChangesNothing ==
    /\ [](~AfterRead =>
            \A p \in StylableProperties, v \in AllValues :
                LET r == SetProperty(that, p, v, styleJson)
                IN  r.threw =>
                      /\ r.that[Field(p)] = that[Field(p)]
                      /\ p \in ShaderProperties =>
                            /\ r.that[ShaderFunctionReadyField(p)] = that[ShaderFunctionReadyField(p)]
                            /\ r.that[ShaderFunctionField(p)] = that[ShaderFunctionField(p)]
                      /\ \A q \in StylableProperties \ {p} : r.that[Field(q)] = that[Field(q)]
                      /\ r.that._meta = that._meta
                      /\ Deref(r.that._style, styleJson) = Deref(that._style, styleJson)
                      /\ r.that._ready = that._ready)
    /\ [][(lastOp'.op = "set" /\ lastOp'.threw /\ nsets' # nsets) =>
             UNCHANGED <<that, readyPromise, request, styleJson, loaded, calls>>]_vars

C21_Witness ==
    /\ that._ready
    /\ nsets = 1
    /\ lastOp.op = "set"
    /\ lastOp.property = "color"
    /\ lastOp.threw
    /\ that._color.type = "ConditionsExpression"
    /\ that._colorShaderFunctionReady
    /\ that._colorShaderFunction.type = "shader"

\* The function names the accessors are called with.
FunctionNames == ColorFunctionNames \cup ShowFunctionNames \cup PointSizeFunctionNames

(***************************************************************************)
(* C22.  Cache coherence: for color, show and pointSize, whenever the      *)
(* cache is flagged valid the memoized value is the result of compiling    *)
(* the expression now assigned to the property (undefined when the         *)
(* property is undefined), also after an accessor call that ended in an    *)
(* error.                                                                  *)
(***************************************************************************)
C22_CacheCoherent ==
    \A p \in ShaderProperties :
        that[ShaderFunctionReadyField(p)] =>
            LET e == that[Field(p)]
                memoized == that[ShaderFunctionField(p)]
            IN  IF ~defined(e)
                THEN memoized = Undefined
                ELSE /\ HasGetShaderFunction(e)
                     /\ \E f \in FunctionNames, a \in AttributePrefixes :
                           memoized = getShaderFunction(e, f, a, ReturnType(p))

\* The cache of color is flagged valid and holds the function compiled from
\* an earlier expression, after the accessor failed on the object now
\* assigned.
C22_Witness ==
    /\ that._ready
    /\ that._color = CustomEvaluateOnly
    /\ that._colorShaderFunctionReady
    /\ that._colorShaderFunction.type = "shader"
    /\ that._colorShaderFunction.of # that._color
    /\ lastOp.op = "getShaderFunction"
    /\ lastOp.property = "color"
    /\ lastOp.threw
    /\ lastOp.ret = Error("TypeError")

(***************************************************************************)
(* C23.  On a cache hit an accessor returns the memoized value whatever    *)
(* functionName and attributePrefix it is given, and neither reads nor     *)
(* writes shaderState: a fresh shaderState given to a cached call comes    *)
(* back without the translucency recorded by the original compilation.     *)
(***************************************************************************)
C23_HitIgnoresArguments ==
    /\ (lastOp.op = "getShaderFunction" /\ lastOp.hit) =>
          /\ ~lastOp.threw
          /\ ~lastOp.invoked
          /\ lastOp.ret = that[ShaderFunctionField(lastOp.property)]
          /\ lastOp.shaderState = NewShaderState
    /\ ~AfterRead =>
          \A p \in ShaderProperties :
              that[ShaderFunctionReadyField(p)] =>
                  \A f \in FunctionNames \cup {"other"}, a \in AttributePrefixes \cup {""},
                     s \in {[translucent |-> FALSE], [translucent |-> TRUE]} :
                      ShaderFunction(that, p, ReturnType(p), f, a, s, styleJson) =
                          [that |-> that, threw |-> FALSE, ret |-> that[ShaderFunctionField(p)],
                           shaderState |-> s, invoked |-> FALSE]

C23_Witness ==
    /\ that._ready
    /\ that._color = [type |-> "Expression", expression |-> SrcColor, defines |-> Undefined]
    /\ lastOp.op = "getShaderFunction"
    /\ lastOp.property = "color"
    /\ lastOp.hit
    /\ lastOp.ret.type = "shader"
    /\ lastOp.ret.functionName # lastOp.args[1]
    /\ ~lastOp.shaderState.translucent

(***************************************************************************)
(* C24.  For a style constructed from a url, whatever was assigned while   *)
(* the request was pending is overwritten when the load completes: once    *)
(* the style is ready every stylable property holds the expression of the  *)
(* loaded document (undefined for an absent key), none holds a value       *)
(* assigned during loading, and the three caches are flagged invalid.      *)
(***************************************************************************)
C24_LoadOverwritesAssignments ==
    (lastOp.op = "load" /\ request = "resolved" /\ that._ready) =>
        /\ \A p \in StylableProperties :
              that[Field(p)] = Assigned(Member(lastOp.value, p), Member(lastOp.value, "defines"))
        /\ \A p \in ShaderProperties :
              /\ ~that[ShaderFunctionReadyField(p)]
              /\ calls[p] = 0
        /\ loaded = lastOp.value

C24_Witness ==
    /\ lastOp.op = "load"
    /\ request = "resolved"
    /\ that._ready
    /\ nsets = 1
    /\ lastOp.value = DocumentA
    /\ that._show = [type |-> "Expression", expression |-> SrcHeight,
                      defines |-> Object([h |-> Str("${Height}")])]
    /\ that._colorShaderFunction = Undefined
    /\ ~that._colorShaderFunctionReady

(***************************************************************************)
(* C25.  Accessor calls made before the style is ready have no lasting     *)
(* effect: whatever was called while loading, the first call of each       *)
(* accessor after the style has become ready compiles the document's       *)
(* expression of that property and returns the result.                     *)
(***************************************************************************)
C25_CallsWhileLoadingLeaveNoTrace ==
    /\ (lastOp.op = "load" /\ request = "resolved" /\ that._ready) =>
          \A p \in ShaderProperties, f \in FunctionNames, a \in AttributePrefixes :
              LET e == Assigned(Member(lastOp.value, p), Member(lastOp.value, "defines"))
                  g == ShaderFunction(that, p, ReturnType(p), f, a, NewShaderState, styleJson)
              IN  /\ ~g.threw
                  /\ g.invoked = defined(e)
                  /\ g.ret = CompiledOf(e, f, a, ReturnType(p))
                  /\ g.that[ShaderFunctionField(p)] = g.ret
    /\ (lastOp.op = "getShaderFunction" /\ request = "resolved" /\ that._ready
          /\ nsets = 0 /\ ~lastOp.hit) =>
          /\ ~lastOp.threw
          /\ lastOp.ret = CompiledOf(Assigned(Member(loaded, lastOp.property), DocumentDefines),
                                     lastOp.args[1], lastOp.args[2], ReturnType(lastOp.property))

C25_Witness ==
    /\ request = "resolved"
    /\ that._ready
    /\ nsets = 0
    /\ loaded = DocumentA
    /\ lastOp.op = "getShaderFunction"
    /\ lastOp.property = "color"
    /\ ~lastOp.hit
    /\ lastOp.invoked
    /\ lastOp.ret.type = "shader"
    /\ lastOp.ret.of.type = "ConditionsExpression"

\* A document was applied and one of its expressions could not be built.
SetupFailed == request \in {"resolved", "none"} /\ defined(loaded) /\ ~WellFormed(loaded)

\* The properties setup assigns before the first one whose value in the
\* document is malformed (all of them when only meta is malformed).
AssignedBeforeFailure(document) ==
    {SetupOrder[i] : i \in {k \in 1..Len(SetupOrder) :
        \A j \in 1..k : ~Malformed(Member(document, SetupOrder[j]))}}

(***************************************************************************)
(* C26.  If building an expression fails while a loaded document is        *)
(* applied, the style has failed for good: ready never becomes true,       *)
(* readyPromise is rejected with that error and every getter keeps         *)
(* throwing the not-loaded error, although the raw document and the        *)
(* properties assigned before the failing one are stored.                  *)
(***************************************************************************)
C26_FailedSetupIsTerminal ==
    /\ [](SetupFailed =>
            /\ ~that._ready
            /\ readyPromise = [state |-> "rejected", value |-> Error("SyntaxError")]
            /\ \A p \in GuardedProperties :
                  GetProperty(that, p, styleJson) = [threw |-> TRUE, ret |-> NotLoadedError]
            /\ (lastOp.op = "get" /\ lastOp.property \in GuardedProperties) =>
                  (lastOp.threw /\ lastOp.ret = NotLoadedError)
            /\ Deref(that._style, styleJson) = loaded
            /\ (nsets = 0 \/ lastOp.op = "load") =>
                  \A p \in AssignedBeforeFailure(loaded) :
                      that[Field(p)] = Assigned(Member(loaded, p), DocumentDefines))
    /\ [][SetupFailed => (SetupFailed' /\ ~that'._ready /\ readyPromise' = readyPromise)]_vars

C26_Witness ==
    /\ request = "resolved"
    /\ loaded = DocumentB
    /\ ~that._ready
    /\ nsets = 0
    /\ that._color = [type |-> "Expression", expression |-> SrcColor,
                       defines |-> Object([h |-> Str("${Height}")])]
    /\ that._font = Undefined
    /\ that._image = Undefined
    /\ lastOp.op = "get"
    /\ lastOp.property = "color"
    /\ lastOp.threw

(***************************************************************************)
(* TimelineHighlightRange (Widgets/Timeline/TimelineHighlightRange.js): a  *)
(* coloured span of the timeline.  makeRevision binds it to a revision: it *)
(* gets a preview marker whose active flag follows a change event.  One    *)
(* range is modelled, with the change events it can be given, the markers  *)
(* it inserts in renderState.topDiv and the element render returns.        *)
(***************************************************************************)
\* The listeners one range may register (calls of makeRevision).
MaxListeners == 2

\* A JulianDate, as the seconds from a common origin.
JulianDate(seconds) == [type |-> "JulianDate", seconds |-> seconds]
\* JulianDate.secondsDifference(left, right)
secondsDifference(left, right) == left.seconds - right.seconds

\* The value as a condition of if and &&.
Truthy(value) ==
    CASE value.type \in {"undefined", "null"} -> FALSE
      [] value.type = "boolean" -> value.bool
      [] value.type = "number" -> value.num # 0
      [] value.type = "string" -> value.str # ""
      [] OTHER -> TRUE

\* A quotient of integers with a positive denominator.
Quotient(num, den) == [num |-> num, den |-> den]
\* Math.round: the nearest integer, a half rounded up.
MathRound(x) == (2 * x.num + x.den) \div (2 * x.den)

\* renderState.getAlpha(time) of the timeline: the fraction of the visible
\* span that lies before the time.
getAlpha(renderState, time) ==
    Quotient(time - renderState.startTime, renderState.duration)

\* Event.addEventListener and the function it returns, which calls
\* Event.removeEventListener: removing a listener that is not registered
\* does nothing.
addEventListener(registered, event, listener) ==
    [registered EXCEPT ![event] = @ \cup {listener}]
removeEventListener(registered, event, listener) ==
    [registered EXCEPT ![event] = @ \ {listener}]
Disposer(event, listener) == [type |-> "function", event |-> event, listener |-> listener]

\* document.createElement('div'): no class, no inline style.
NewElement ==
    [type |-> "element", className |-> "",
     style |-> [width |-> "", height |-> "", bottom |-> "", left |-> ""]]
\* parentNode.removeChild(child)
removeChild(children, child) ==
    IF \E i \in 1..Len(children) : children[i] = child
    THEN LET i == CHOOSE k \in 1..Len(children) :
                      children[k] = child /\ \A j \in 1..(k - 1) : children[j] # child
         IN  SubSeq(children, 1, i - 1) \o SubSeq(children, i + 1, Len(children))
    ELSE children

\* new TimelineHighlightRange(color, heightInPx, base, cssClass).  The
\* fields the constructor does not assign are undefined.
TimelineHighlightRange(color, heightInPx, base, cssClass) ==
    [_color |-> color,
     _height |-> heightInPx,
     _base |-> defaultValue(base, Num(0)),
     _class |-> defaultValue(cssClass, Str("cesium-timeline-highlight")),
     _isRevision |-> FALSE,
     _element |-> Undefined,
     active |-> FALSE,
     _revision |-> Undefined,
     _id |-> Undefined,
     _change |-> Undefined,
     _block |-> Undefined,
     _active |-> Undefined,
     _previewMarker |-> Undefined,
     _start |-> Undefined,
     _stop |-> Undefined,
     disposer |-> Undefined,
     _previewMarkerTemplate |-> Undefined]

\* setRange(start, stop)
setRange(highlight, start, stop) ==
    [highlight EXCEPT !._start = start, !._stop = stop]

\* makeRevision(revision, change): listener is the identity of the function
\* registered by this call.
makeRevision(highlight, revision, change, registered, listener) ==
    LET bound == [highlight EXCEPT
                     !._isRevision = TRUE,
                     !._revision = revision,
                     !._id = Num(revision.id),
                     !._change = Str(change),
                     !._block = Bool(FALSE),
                     !._active = Bool(TRUE),
                     !._previewMarker = [type |-> "object", active |-> FALSE,
                                         title |-> revision.name, isHover |-> FALSE]]
        ranged == setRange(bound, revision.timeData.start, revision.timeData.stop)
    IN  [that |-> [ranged EXCEPT !.disposer = Disposer(change, listener)],
         listeners |-> addEventListener(registered, change, listener)]

\* A listener that follows every change event, whatever its switches.
ListenerIgnoresSwitches(highlight, revisions, showState, tempSwitch) ==
    [highlight EXCEPT !._previewMarker.active =
        \E i \in 1..Len(revisions) : revisions[i].id = highlight._revision.id]

\* The listener makeRevision registers, called with the arguments of the
\* event.
Listener(highlight, revisions, showState, tempSwitch) ==
    IF ~tempSwitch /\ ~showState
    THEN [highlight EXCEPT !._previewMarker.active =
             \E i \in 1..Len(revisions) : revisions[i].id = highlight._revision.id]
    ELSE highlight

\* Event.raiseEvent: every registered listener is called with the arguments.
RECURSIVE Notify(_, _, _, _, _)
Notify(highlight, n, revisions, showState, tempSwitch) ==
    IF n = 0
    THEN highlight
    ELSE Notify(Listener(highlight, revisions, showState, tempSwitch), n - 1,
                revisions, showState, tempSwitch)

\* The identity of the object makeRevision made the range's _previewMarker:
\* the number of the call, which is also that of the listener it registered.
ViewModel(highlight) == highlight.disposer.listener

\* knockout.applyBindings(viewModel, node) on a marker: the css binding adds
\* the class bim-active while active is true, the visible binding of the
\* title hides it while isHover is false; identity is the view model's.
applyBindings(viewModel, node, identity) ==
    [node EXCEPT
        !.className = IF viewModel.active
                      THEN "bim-revision-preview-marker bim-active"
                      ELSE "bim-revision-preview-marker",
        !.hoverTitle.style.display = IF viewModel.isHover THEN "" ELSE "none",
        !.viewModel = identity]

\* knockout.track: after a write to active or isHover of the range's
\* _previewMarker, the marker that is bound to that object follows it.  A
\* marker bound to the object of an earlier makeRevision stays as it is.
Tracked(highlight, children) ==
    LET node == highlight._previewMarkerTemplate
    IN  IF defined(node) /\ node.viewModel = ViewModel(highlight)
        THEN LET bound == applyBindings(highlight._previewMarker, node, node.viewModel)
             IN  [that |-> [highlight EXCEPT !._previewMarkerTemplate = bound],
                  topDiv |-> [i \in 1..Len(children) |->
                                 IF children[i] = node THEN bound ELSE children[i]]]
        ELSE [that |-> highlight, topDiv |-> children]

raiseEvent(highlight, registered, event, revisions, showState, tempSwitch, children) ==
    Tracked(Notify(highlight, Cardinality(registered[event]), revisions, showState,
                   tempSwitch),
            children)

\* this._previewMarker.click()
click(highlight, registered, children) ==
    LET marked == Tracked([highlight EXCEPT !._previewMarker.active = TRUE], children)
        r == raiseEvent(marked.that, registered, highlight._change.str,
                        <<highlight._revision>>, FALSE, TRUE, marked.topDiv)
    IN  [that |-> r.that,
         topDiv |-> r.topDiv,
         raised |-> <<[event |-> highlight._change.str,
                       revisions |-> <<highlight._revision>>,
                       showState |-> FALSE, tempSwitch |-> TRUE]>>]

\* previewMarker.onmouseover and previewMarker.onmouseleave
hover(highlight, isHover, children) ==
    Tracked([highlight EXCEPT !._previewMarker.isHover = isHover], children)

\* The element and the marker of the previous rendering are taken out of
\* the document.
RemoveRendered(highlight, children) ==
    [that |-> [highlight EXCEPT !._element = Undefined,
                                !._previewMarkerTemplate = Undefined],
     topDiv |-> LET kept == IF defined(highlight._element)
                            THEN removeChild(children, highlight._element)
                            ELSE children
                IN  IF defined(highlight._previewMarkerTemplate)
                    THEN removeChild(kept, highlight._previewMarkerTemplate)
                    ELSE kept]

\* clearRevision()
clearRevision(highlight, registered, children) ==
    LET removed == RemoveRendered(highlight, children)
    IN  [that |-> removed.that,
         listeners |-> IF defined(highlight.disposer)
                       THEN removeEventListener(registered, highlight.disposer.event,
                                                highlight.disposer.listener)
                       ELSE registered,
         topDiv |-> removed.topDiv]

\* A clamping that cuts the highlight at the left end of the bar only.
ClampLeftOnly(highlightLeft, highlightWidth, timeBarWidth) ==
    [left |-> IF highlightLeft < 0 THEN 0 ELSE highlightLeft,
     width |-> IF highlightLeft < 0 THEN highlightWidth + highlightLeft
               ELSE highlightWidth]

\* The highlight cut to the visible bar.
Clamp(highlightLeft, highlightWidth, timeBarWidth) ==
    LET width == IF highlightLeft < 0 THEN highlightWidth + highlightLeft
                 ELSE highlightWidth
        left == IF highlightLeft < 0 THEN 0 ELSE highlightLeft
    IN  [left |-> left,
         width |-> IF left + width > timeBarWidth THEN timeBarWidth - left ELSE width]

\* The marker render makes for a revision, before it is bound.
PreviewMarker(highlight, left) ==
    [type |-> "element", className |-> "bim-revision-preview-marker",
     hoverTitle |-> [className |-> "bim-preview-title",
                     innerText |-> highlight._revision.label,
                     style |-> [display |-> ""]],
     style |-> [left |-> ToString(left) \o "px"],
     viewModel |-> Undefined]

\* render(renderState): the range, the children of topDiv, and what the call
\* returns or throws.
render(highlight, renderState, children) ==
    LET removed == RemoveRendered(highlight, children)
        this == removed.that
        range == NewElement
        Throw(name) == [that |-> this, topDiv |-> removed.topDiv,
                        threw |-> TRUE, ret |-> Error(name)]
    IN  IF ~(Truthy(this._start) /\ Truthy(this._stop) /\ Truthy(this._color))
        THEN [that |-> this, topDiv |-> removed.topDiv, threw |-> FALSE, ret |-> range]
        ELSE
        LET highlightStart == secondsDifference(this._start, renderState.epochJulian)
            highlightLeft ==
                MathRound(Quotient(renderState.timeBarWidth * getAlpha(renderState, highlightStart).num,
                                   getAlpha(renderState, highlightStart).den))
            highlightStop == secondsDifference(this._stop, renderState.epochJulian)
            highlightWidth ==
                MathRound(Quotient(renderState.timeBarWidth * getAlpha(renderState, highlightStop).num,
                                   getAlpha(renderState, highlightStop).den)) - highlightLeft
            clamped == Clamp(highlightLeft, highlightWidth, renderState.timeBarWidth)
        IN  IF clamped.width <= 0
            THEN [that |-> this, topDiv |-> removed.topDiv, threw |-> FALSE, ret |-> range]
            ELSE IF ~defined(this._height)
            THEN Throw("TypeError")
            ELSE
            LET sized == [range EXCEPT
                             !.className = this._class.str,
                             !.style = [width |-> ToString(clamped.width) \o "px",
                                        height |-> String(this._height) \o "px",
                                        bottom |-> String(this._base) \o "NaN",
                                        left |-> ToString(clamped.left) \o "px"]]
            IN  IF this._id # Num(-1)
                THEN IF ~defined(this._revision)
                     THEN Throw("TypeError")
                     ELSE LET previewMarker ==
                                  applyBindings(this._previewMarker,
                                                PreviewMarker(this, clamped.left),
                                                ViewModel(this))
                          IN  [that |-> [this EXCEPT !._previewMarkerTemplate = previewMarker],
                               topDiv |-> <<previewMarker>> \o removed.topDiv,
                               threw |-> FALSE, ret |-> sized]
                ELSE [that |-> this, topDiv |-> removed.topDiv,
                      threw |-> FALSE, ret |-> sized]

(***************************************************************************)
(* The highlight range's environment: the arguments it is constructed      *)
(* with, the revisions and change events of the application, the ranges it *)
(* is given and the states of the timeline it is rendered in.              *)
(***************************************************************************)
RangeArguments ==
    {<<Str("red"), Num(8), Undefined, Undefined>>,
     <<Str(""), Num(8), Undefined, Undefined>>,
     <<Str("blue"), Undefined, Num(2), Str("revision-highlight")>>,
     <<Undefined, Num(8), Num(2), Undefined>>}

Revision(id, name, start, stop) ==
    [type |-> "object", id |-> id, name |-> name, label |-> name,
     timeData |-> [start |-> JulianDate(start), stop |-> JulianDate(stop)]]
Revisions == {Revision(1, "first", 3, 6), Revision(-1, "none", 6, 12)}
Events == {"change", "otherChange"}
\* The revision lists of the change events.
RevisionLists == {<<>>, <<Revision(-1, "none", 6, 12)>>,
                  <<Revision(2, "second", 6, 12), Revision(1, "first", 3, 6)>>}

\* start and stop: left of the bar, across its left end, right of the bar,
\* and without a stop.  The revisions bring a range inside the bar and one
\* across its right end.
Ranges ==
    {<<JulianDate(-4), JulianDate(-2)>>, <<JulianDate(-4), JulianDate(3)>>,
     <<JulianDate(12), JulianDate(14)>>, <<JulianDate(3), Undefined>>}
AllTimes == {JulianDate(t) : t \in -4..14} \cup {Undefined}

\* The durations are powers of two, so that the products the code computes
\* in floating point are exact.
RenderState(timeBarWidth, startTime, duration) ==
    [timeBarWidth |-> timeBarWidth, epochJulian |-> JulianDate(0),
     startTime |-> startTime, duration |-> duration]
RenderStates == {RenderState(10, 0, 8), RenderState(15, 2, 4)}

(***************************************************************************)
(* The state machine of the highlight range.                               *)
(***************************************************************************)
RangeOp(op, args, threw, ret, raised) ==
    [op |-> op, args |-> args, threw |-> threw, ret |-> ret, raised |-> raised]

\* No style has been constructed.
NoStyle ==
    /\ that = Undefined
    /\ readyPromise = Undefined
    /\ request = "none"
    /\ styleJson = Undefined
    /\ callerMutated = FALSE
    /\ loaded = Undefined
    /\ lastOp = Undefined
    /\ calls = <<>>
    /\ nsets = 0

InitRange ==
    \E a \in RangeArguments :
        /\ highlightRange = TimelineHighlightRange(a[1], a[2], a[3], a[4])
        /\ listeners = [e \in Events |-> {}]
        /\ created = 0
        /\ topDiv = <<>>
        /\ rangeOp = RangeOp("new", a, FALSE, Undefined, <<>>)
        /\ NoStyle

MakeRevision(revision, change) ==
    /\ created < MaxListeners
    /\ LET r == makeRevision(highlightRange, revision, change, listeners, created + 1)
       IN  /\ highlightRange' = r.that
           /\ listeners' = r.listeners
    /\ created' = created + 1
    /\ rangeOp' = RangeOp("makeRevision", <<revision, change>>, FALSE, Undefined, <<>>)
    /\ UNCHANGED topDiv
    /\ UNCHANGED styleVars

ClearRevision ==
    /\ LET r == clearRevision(highlightRange, listeners, topDiv)
       IN  /\ highlightRange' = r.that
           /\ listeners' = r.listeners
           /\ topDiv' = r.topDiv
    /\ rangeOp' = RangeOp("clearRevision", <<>>, FALSE, Undefined, <<>>)
    /\ UNCHANGED created
    /\ UNCHANGED styleVars

SetRange(start, stop) ==
    /\ highlightRange' = setRange(highlightRange, start, stop)
    /\ rangeOp' = RangeOp("setRange", <<start, stop>>, FALSE, Undefined, <<>>)
    /\ UNCHANGED <<listeners, created, topDiv>>
    /\ UNCHANGED styleVars

Render(renderState) ==
    /\ LET r == render(highlightRange, renderState, topDiv)
       IN  /\ highlightRange' = r.that
           /\ topDiv' = r.topDiv
           /\ rangeOp' = RangeOp("render", <<renderState>>, r.threw, r.ret, <<>>)
    /\ UNCHANGED <<listeners, created>>
    /\ UNCHANGED styleVars

\* The application raises a change event.
RaiseEvent(event, revisions, showState, tempSwitch) ==
    /\ LET r == raiseEvent(highlightRange, listeners, event, revisions, showState,
                           tempSwitch, topDiv)
       IN  /\ highlightRange' = r.that
           /\ topDiv' = r.topDiv
    /\ rangeOp' = RangeOp("raiseEvent", <<event, revisions, showState, tempSwitch>>,
                          FALSE, Undefined, <<>>)
    /\ UNCHANGED <<listeners, created>>
    /\ UNCHANGED styleVars

\* The user clicks the marker that is in the document.
Click ==
    /\ defined(highlightRange._previewMarkerTemplate)
    /\ LET r == click(highlightRange, listeners, topDiv)
       IN  /\ highlightRange' = r.that
           /\ topDiv' = r.topDiv
           /\ rangeOp' = RangeOp("click", <<>>, FALSE, Undefined, r.raised)
    /\ UNCHANGED <<listeners, created>>
    /\ UNCHANGED styleVars

\* The pointer enters the marker that is in the document.
MouseOver ==
    /\ defined(highlightRange._previewMarkerTemplate)
    /\ LET r == hover(highlightRange, TRUE, topDiv)
       IN  /\ highlightRange' = r.that
           /\ topDiv' = r.topDiv
    /\ rangeOp' = RangeOp("mouseover", <<>>, FALSE, Undefined, <<>>)
    /\ UNCHANGED <<listeners, created>>
    /\ UNCHANGED styleVars

\* The pointer leaves the marker that is in the document.
MouseLeave ==
    /\ defined(highlightRange._previewMarkerTemplate)
    /\ LET r == hover(highlightRange, FALSE, topDiv)
       IN  /\ highlightRange' = r.that
           /\ topDiv' = r.topDiv
    /\ rangeOp' = RangeOp("mouseleave", <<>>, FALSE, Undefined, <<>>)
    /\ UNCHANGED <<listeners, created>>
    /\ UNCHANGED styleVars

NextRange ==
    \/ \E revision \in Revisions, change \in Events : MakeRevision(revision, change)
    \/ ClearRevision
    \/ \E r \in Ranges : SetRange(r[1], r[2])
    \/ \E renderState \in RenderStates : Render(renderState)
    \/ \E event \in Events, revisions \in RevisionLists, showState \in BOOLEAN,
          tempSwitch \in BOOLEAN : RaiseEvent(event, revisions, showState, tempSwitch)
    \/ Click
    \/ MouseOver
    \/ MouseLeave

SpecRange == InitRange /\ [][NextRange]_vars

(***************************************************************************)
(* Claims about the highlight range.                                       *)
(***************************************************************************)
\* The listeners of the range that are registered on some change event.
Registered == UNION {listeners[e] : e \in Events}
\* The marker of the revision, once makeRevision has made one.
IsRevision == highlightRange._isRevision
MarkerActive == highlightRange._previewMarker.active

(* C27. Listener accounting: whatever makeRevision and clearRevision calls  *)
(* were made, the range has at most one listener registered on a change    *)
(* event, and after clearRevision it has none.                             *)
C27_AtMostOneListenerNoneAfterClear ==
    /\ Cardinality(Registered) <= 1
    /\ rangeOp.op = "clearRevision" => Registered = {}

\* makeRevision was called twice and clearRevision once: the first listener
\* is still registered, and a change event raised after clearRevision has
\* set the marker's flag.
C27_Witness ==
    /\ created = 2
    /\ Cardinality(Registered) = 1
    /\ highlightRange.disposer.listener \notin Registered
    /\ rangeOp.op = "raiseEvent"
    /\ ~rangeOp.args[3] /\ ~rangeOp.args[4]
    /\ \E i \in 1..Len(rangeOp.args[2]) : rangeOp.args[2][i].id = highlightRange._revision.id
    /\ MarkerActive

\* The revision of the range occurs in the list.
Occurs(revisions) ==
    \E i \in 1..Len(revisions) : revisions[i].id = highlightRange._revision.id

(* C28. Preview marker of a revision range that listens to a change event: *)
(* after an event with showState false and tempSwitch false the marker's   *)
(* active flag is true exactly when the range's revision id occurs in the  *)
(* event's revision list; an event with showState or tempSwitch true       *)
(* leaves the range as it was; a click sets the flag and raises one event  *)
(* ([own revision], false, true) on the range's change event, after which  *)
(* the flag is still set.                                                  *)
C28_MarkerFollowsChangeEvent ==
    /\ []((/\ rangeOp.op = "raiseEvent"
           /\ listeners[rangeOp.args[1]] # {}
           /\ ~rangeOp.args[3] /\ ~rangeOp.args[4])
              => (MarkerActive <=> Occurs(rangeOp.args[2])))
    /\ [][/\ (rangeOp'.op = "raiseEvent" /\ (rangeOp'.args[3] \/ rangeOp'.args[4]))
                => (highlightRange' = highlightRange /\ topDiv' = topDiv)
          /\ rangeOp'.op = "click"
                => /\ MarkerActive'
                   /\ [highlightRange' EXCEPT !._previewMarkerTemplate = Undefined] =
                         [highlightRange EXCEPT !._previewMarker.active = TRUE,
                                                !._previewMarkerTemplate = Undefined]
                   /\ rangeOp'.raised =
                         <<[event |-> highlightRange._change.str,
                            revisions |-> <<highlightRange._revision>>,
                            showState |-> FALSE, tempSwitch |-> TRUE]>>]_vars

\* The marker is in the document, the range listens to the event that was
\* raised without switches, its revision is in the list and the flag is set.
C28_Witness ==
    /\ rangeOp.op = "raiseEvent"
    /\ listeners[rangeOp.args[1]] # {}
    /\ ~rangeOp.args[3] /\ ~rangeOp.args[4]
    /\ Occurs(rangeOp.args[2])
    /\ MarkerActive
    /\ defined(highlightRange._previewMarkerTemplate)
    /\ Len(topDiv) = 1

\* The pixel of the bar a time falls on.
Pixel(time, renderState) ==
    LET alpha == getAlpha(renderState, secondsDifference(time, renderState.epochJulian))
    IN  MathRound(Quotient(renderState.timeBarWidth * alpha.num, alpha.den))
Px(n) == ToString(n) \o "px"
Max(a, b) == IF a >= b THEN a ELSE b
Min(a, b) == IF a <= b THEN a ELSE b
\* start, stop or color is missing (or is a value that counts as false).
Incomplete(highlight) ==
    ~Truthy(highlight._start) \/ ~Truthy(highlight._stop) \/ ~Truthy(highlight._color)
\* The element has a size.
Sized(element) == element.style.width # ""
\* The element render returned for the range in the render state is blank
\* when the range is incomplete or no pixel of it is on the bar, and is
\* otherwise the part of the range that is on the bar, which has a left
\* offset >= 0, a width > 0 and a right end <= timeBarWidth.
ClampedToBar(highlight, renderState, element) ==
    LET W == renderState.timeBarWidth
    IN  /\ Sized(element) =>
              \E left \in 0..W, width \in 1..W :
                  /\ left + width <= W
                  /\ element.style.left = Px(left)
                  /\ element.style.width = Px(width)
        /\ IF Incomplete(highlight)
           THEN element = NewElement
           ELSE LET left == Max(Pixel(highlight._start, renderState), 0)
                    right == Min(Pixel(highlight._stop, renderState), W)
                IN  IF right - left <= 0
                    THEN element = NewElement
                    ELSE /\ element.className # ""
                         /\ element.style.left = Px(left)
                         /\ element.style.width = Px(right - left)

(* C29. Clamping in render: an element that render returns with a size has *)
(* left >= 0, width > 0 and left + width <= renderState.timeBarWidth, and  *)
(* is the part of the range on the bar; when start, stop or color is       *)
(* missing, or no part of the range is on the bar, the element has no      *)
(* class, size or position.  Checked of the call that was made, and        *)
(* of every start and stop the range can be given in every render state.   *)
C29_HighlightClampedToBar ==
    /\ (rangeOp.op = "render" /\ ~rangeOp.threw) =>
           ClampedToBar(highlightRange, rangeOp.args[1], rangeOp.ret)
    /\ rangeOp.op \in {"new", "makeRevision"} =>
           \A start \in AllTimes, stop \in AllTimes, renderState \in RenderStates :
               LET highlight == setRange(highlightRange, start, stop)
                   r == render(highlight, renderState, topDiv)
               IN  ~r.threw => ClampedToBar(highlight, renderState, r.ret)

\* A revision range that starts left of the bar was rendered: the element
\* starts at 0 and is 4 pixels wide.
C29_Witness ==
    /\ rangeOp.op = "render" /\ ~rangeOp.threw
    /\ highlightRange._start = JulianDate(-4)
    /\ highlightRange._stop = JulianDate(3)
    /\ rangeOp.args[1].timeBarWidth = 10
    /\ rangeOp.ret.style.left = "0px"
    /\ rangeOp.ret.style.width = "4px"
    /\ rangeOp.ret.className = "cesium-timeline-highlight"

\* The range has a color, a start and a stop.
Complete(highlight) ==
    Truthy(highlight._color) /\ Truthy(highlight._start) /\ Truthy(highlight._stop)

(* C30. render of a range that has a color, a start and a stop (and was    *)
(* given a height) returns an element and throws nothing, whether or not   *)
(* makeRevision was called; no marker is in topDiv for a range that is not *)
(* a revision.                                                             *)
C30_RenderReturnsElement ==
    /\ (/\ rangeOp.op = "render"
        /\ Complete(highlightRange)
        /\ defined(highlightRange._height))
           => (~rangeOp.threw /\ rangeOp.ret.type = "element")
    /\ ~IsRevision => topDiv = <<>>

\* A range that was never made a revision, with a color, a height and a
\* range across the left end of the bar, was rendered: the call threw a
\* TypeError.
C30_Witness ==
    /\ rangeOp.op = "render"
    /\ ~IsRevision
    /\ Complete(highlightRange)
    /\ defined(highlightRange._height)
    /\ highlightRange._start = JulianDate(-4)
    /\ highlightRange._stop = JulianDate(3)
    /\ rangeOp.threw
    /\ rangeOp.ret = Error("TypeError")

====
